---- MODULE Spec2Model ----
(***************************************************************************)
(* A model of src/src/server.rs: the admission semaphore and accept loop,  *)
(* the per-connection tasks with their handoff to the tick loop, the      *)
(* shutdown slot, and the tick loop with its fixed sequence of passes;     *)
(* then, each on variables of its own, one session packet by packet, the   *)
(* checks of setup_server, weird_hex_encoding, handle_login, handle_status *)
(* and the handoff with the channels join_player creates.                  *)
(***************************************************************************)
EXTENDS Integers, Sequences, FiniteSets, TLC

\* ------------------------------------------------------------- bounds

\* Number of connections the model follows at a time. A connection's slot is
\* free again once its tasks have ended and its Client is gone.
NumConns == 2
\* Number of tick iterations that run to completion in a run.
MaxTicks == 2
\* Number of worlds, and of chunks a world can hold.
NumWorlds == 2
NumChunks == 1

\* ------------------------------------------------------- configuration

\* cfg.max_connections(): the initial capacity of connection_sema.
max_connections == 1
\* cfg.incoming_packet_capacity(): depth of a session's serverbound channel.
incoming_packet_capacity == 2
\* cfg.outgoing_packet_capacity(): depth of a session's clientbound channel.
outgoing_packet_capacity == 2
\* flume::bounded(1): depth of the new_clients channel.
NewClientsCapacity == 1

Conns == 1..NumConns
Worlds == 1..NumWorlds
ChunkIds == 1..NumChunks
ChunkKeys == Worlds \X ChunkIds

\* The values a ShutdownResult takes: Ok(()), an error given by the user, the
\* error of a failed TcpListener::bind.
UserResults == {"Ok", "Err"}
BindError == "BindErr"
None == "None"

VARIABLES
    \* connection_sema
    sema_closed,        \* Semaphore::close() was called
    sema_permits,       \* permits available in the semaphore
    \* do_accept_loop
    acceptPc,           \* "bind", "bind_failed", "aborted" (returned at line
                        \* 444), "acquire", "accept", "done" (line 471)
    incoming,           \* what the listener has pending: "none", "conn", "fault"
    \* per-connection task (the task spawned at line 453)
    connPc,             \* "none" (no task), "handshake", "status", "login",
                        \* "send_new", "await_reply", "read", "send"
    writerPc,           \* the writer task of line 718: "none", "running"
    \* channels
    new_clients,        \* queue of NewClientMessage (the connection it is from)
    reply,              \* the oneshot of a NewClientMessage: "none", "sent"
    inq,                \* packets queued in a session's serverbound channel
    outq,               \* packets queued in a session's clientbound channel
    \* Server
    clients,            \* server.clients: the connections with a live Client
    shutdown_result,    \* the shutdown slot
    tick_counter,
    \* do_update_loop
    tickPc,             \* the phase the tick loop is at
    parDone,            \* items of the running parallel pass that are done
    returned,           \* what start_server returned
    \* callers of shutdown() holding a SharedServer handle
    userPc,             \* "idle", "closed" (between lines 208 and 209)
    userRes,            \* the result the call in progress carries
    \* history
    iterations,         \* tick iterations begun (shutdown check passed)
    phaseLog,           \* the phases the running iteration has entered, in order
    stepLog,            \* the sub-steps the running iteration has completed
    applied,            \* the chunks a pass of it called apply_modifications on
    \* Worlds
    worlds,             \* server.worlds: the worlds that exist
    chunks,             \* the chunks that exist, as <<world, chunk>>
    chunkTick,          \* created_tick of a chunk
    chunkDirty          \* the chunk holds modifications not yet applied

vars == <<sema_closed, sema_permits, acceptPc, incoming,
          connPc, writerPc, new_clients, reply, inq, outq, clients,
          shutdown_result, tick_counter, tickPc, parDone, returned, userPc,
          userRes, iterations,
          phaseLog, stepLog, applied, worlds, chunks, chunkTick,
          chunkDirty>>

admissionVars == <<sema_closed, sema_permits, acceptPc, incoming>>
connVars == <<connPc, writerPc, new_clients, reply, inq, outq>>
tickVars == <<tick_counter, tickPc, parDone, returned, iterations, phaseLog,
              stepLog, applied>>
worldVars == <<worlds, chunks, chunkTick, chunkDirty>>
userVars == <<userPc, userRes>>

\* One session followed packet by packet (handle_play, lines 716-734, and the
\* Client the tick loop holds). Packets are numbered in the order they enter.
VARIABLES
    s_wire,             \* the packets the reader has read off the wire
    s_in,               \* contents of the serverbound channel (packet_tx)
    s_recv,             \* the packets the tick loop has received from it
    s_sent,             \* the packets the tick loop has enqueued for the writer
    s_out,              \* contents of the clientbound channel (packet_rx)
    s_hold,             \* the packet the writer received and has yet to write
    s_written,          \* the packets the writer has written to the socket
    s_reader,           \* the reader: "read", "send", "done"
    s_writer,           \* the writer task: "recv", "write", "done"
    s_client,           \* the tick loop holds the Client (its channel halves)
    s_seen              \* the closed halves the tick loop has come upon

sessionVars == <<s_wire, s_in, s_recv, s_sent, s_out, s_hold, s_written,
                 s_reader, s_writer, s_client, s_seen>>

\* The state of a session when handle_play has the reply and has spawned the
\* writer (lines 711-725): nothing read, nothing enqueued.
SessionInit ==
    /\ s_wire = <<>>
    /\ s_in = <<>>
    /\ s_recv = <<>>
    /\ s_sent = <<>>
    /\ s_out = <<>>
    /\ s_hold = 0
    /\ s_written = <<>>
    /\ s_reader = "read"
    /\ s_writer = "recv"
    /\ s_client = TRUE
    /\ s_seen = {}

\* start_server on a configuration (lines 217-234 and 236-315).
VARIABLES
    cfg,                \* the values the Config returns
    startPc,            \* "setup", "init", "spawn", "update_loop", "returned",
                        \* "panicked"
    startResult,        \* what start_server returned: None, "Err"
    setupError          \* the check of setup_server that failed, or None

configVars == <<cfg, startPc, startResult, setupError>>

\* A dimension every check of setup_server passes.
ValidDimension ==
    [min_y |-> -64, height |-> 384, ambient_light |-> 100, fixed_time |-> {}]

\* A configuration every check of setup_server passes. ambient_light is in
\* hundredths; fixed_time is an Option: the empty set or a one-element set;
\* dimension is the last of the dimension_count dimensions, the ones before
\* it are ValidDimension; biome i is named i, and with biome_dup the last
\* one has the name of the first.
ValidCfg ==
    [tick_rate |-> 20, incoming |-> incoming_packet_capacity,
     outgoing |-> outgoing_packet_capacity, dimension_count |-> 1,
     dimension |-> ValidDimension, biome_count |-> 1, biome_dup |-> FALSE]

\* start_server not yet called.
ConfigIdle ==
    /\ cfg = ValidCfg
    /\ startPc = "setup"
    /\ startResult = None
    /\ setupError = None

\* weird_hex_encoding on a byte string (lines 737-739).
VARIABLES
    hexBytes,           \* the argument: a sequence of bytes
    hexString           \* the String returned, as a sequence of characters;
                        \* empty before the call

hexVars == <<hexBytes, hexString>>

\* weird_hex_encoding not yet called, on the empty slice.
HexIdle ==
    /\ hexBytes = <<>>
    /\ hexString = <<>>

\* One connection through handle_connection's login branch (lines 495-503,
\* 559-697), event by event.
VARIABLES
    l_cfg,              \* online_mode, what the EncryptionResponse carries and
                        \* what the login callback answers
    l_pc,               \* where the task is
    l_log,              \* the packets written and the codec switches, in order
    l_crypt,            \* the codec halves with encryption enabled
    l_compress,         \* the codec halves with compression enabled
    l_result,           \* what handle_login returned, or None
    l_conn,             \* what handle_connection returned, or None
    l_msg,              \* the NewClientMessage: "none", "queued" in new_clients,
                        \* "client" once join_player has inserted the Client
    l_permit            \* the task holds its permit

loginVars == <<l_cfg, l_pc, l_log, l_crypt, l_compress, l_result, l_conn,
               l_msg, l_permit>>

\* A connection accepted in offline mode, its Handshake read with next_state
\* Login: handle_login is about to read LoginStart.
LoginIdle ==
    /\ l_cfg = [online_mode |-> FALSE, token |-> "match", login |-> "Ok"]
    /\ l_pc = "login_start"
    /\ l_log = <<>>
    /\ l_crypt = {}
    /\ l_compress = {}
    /\ l_result = None
    /\ l_conn = None
    /\ l_msg = "none"
    /\ l_permit = TRUE

\* One connection through handle_status (lines 507-556), event by event.
VARIABLES
    t_ping,             \* what server_list_ping answers: "Respond" or "Ignore",
                        \* and whether a favicon comes with it
    t_pc,               \* where the task is
    t_log,              \* the packets read and written, in order
    t_result            \* what handle_status returned, or None

statusVars == <<t_ping, t_pc, t_log, t_result>>

\* A connection whose Handshake asked for Status: handle_status is about to
\* read the StatusRequest.
StatusIdle ==
    /\ t_ping = [answer |-> "Ignore", favicon |-> FALSE]
    /\ t_pc = "status_request"
    /\ t_log = <<>>
    /\ t_result = None

\* The handoff of logged-in connections to the tick loop (lines 476-505,
\* 699-735, 371-378 and 418-430), with the channels join_player creates.
VARIABLES
    h_pc,               \* where each connection task is
    h_next,             \* the next_state its Handshake selected, or None
    h_login,            \* what its handle_login returned, or None
    h_sent,             \* the NewClientMessages it has sent
    h_new,              \* new_clients: the connections of the queued messages
    h_chan,             \* the channels join_player has created, in order
    h_reply,            \* the halves a task was replied: channels by number
    h_clients,          \* server.clients, in the order of insertion
    h_tick,             \* the phase of the tick loop
    h_ticks,            \* the ticks completed
    h_done,             \* the clients the running parallel pass has handled
    h_got,              \* the origins of the packets each Client received
    h_wrote,            \* the origins of the packets each writer received
    h_up,               \* the packets each reader has pushed
    h_down              \* the packets each Client has sent

handoffVars == <<h_pc, h_next, h_login, h_sent, h_new, h_chan, h_reply,
                 h_clients, h_tick, h_ticks, h_done, h_got, h_wrote, h_up,
                 h_down>>

\* No halves: a task that was not replied.
NoHalves == [tx |-> 0, rx |-> 0]

\* Every connection accepted and about to read its Handshake, the tick loop
\* at the drain of its first tick.
HandoffIdle ==
    /\ h_pc = [c \in Conns |-> "handshake"]
    /\ h_next = [c \in Conns |-> None]
    /\ h_login = [c \in Conns |-> None]
    /\ h_sent = [c \in Conns |-> 0]
    /\ h_new = <<>>
    /\ h_chan = <<>>
    /\ h_reply = [c \in Conns |-> NoHalves]
    /\ h_clients = <<>>
    /\ h_tick = "drain"
    /\ h_ticks = 0
    /\ h_done = {}
    /\ h_got = [c \in Conns |-> {}]
    /\ h_wrote = [c \in Conns |-> {}]
    /\ h_up = [c \in Conns |-> 0]
    /\ h_down = [c \in Conns |-> 0]

\* What the model follows besides the server's tasks.
detailVars == <<sessionVars, configVars, hexVars, loginVars, statusVars,
                handoffVars>>

\* Each of those parts at rest, in its first state.
DetailIdle ==
    /\ SessionInit
    /\ ConfigIdle
    /\ HexIdle
    /\ LoginIdle
    /\ StatusIdle
    /\ HandoffIdle

\* What the steps of one part leave alone: the server's tasks and the other
\* parts.
sessionRest == <<vars, configVars, hexVars, loginVars, statusVars,
                 handoffVars>>
configRest == <<vars, sessionVars, hexVars, loginVars, statusVars,
                handoffVars>>
hexRest == <<vars, sessionVars, configVars, loginVars, statusVars,
             handoffVars>>
loginRest == <<vars, sessionVars, configVars, hexVars, statusVars,
               handoffVars>>
statusRest == <<vars, sessionVars, configVars, hexVars, loginVars,
                handoffVars>>
handoffRest == <<vars, sessionVars, configVars, hexVars, loginVars,
                 statusVars>>

\* Lines 194-196: current_tick() is an atomic load of the counter.
current_tick == tick_counter

\* --------------------------------------------------------------- Init

\* The state when start_server has built the Server, init() has run and
\* do_accept_loop has been spawned (lines 218-233, 336-357).
InitServer ==
    /\ sema_closed = FALSE
    /\ sema_permits = max_connections
    /\ acceptPc = "bind"
    /\ incoming = "none"
    /\ connPc = [c \in Conns |-> "none"]
    /\ writerPc = [c \in Conns |-> "none"]
    /\ new_clients = <<>>
    /\ reply = [c \in Conns |-> "none"]
    /\ inq = [c \in Conns |-> 0]
    /\ outq = [c \in Conns |-> 0]
    /\ clients = {}
    /\ shutdown_result = None
    /\ tick_counter = 0
    /\ tickPc = "check"
    /\ parDone = {}
    /\ returned = None
    /\ userPc = "idle"
    /\ userRes = None
    /\ iterations = 0
    /\ phaseLog = <<"check">>
    /\ stepLog = {}
    /\ applied = {}

\* Worlds::new() at line 226, and an init() that adds no world.
Init ==
    /\ InitServer
    /\ worlds = {}
    /\ chunks = {}
    /\ chunkTick = [k \in ChunkKeys |-> 0]
    /\ chunkDirty = [k \in ChunkKeys |-> FALSE]
    /\ DetailIdle

\* A server whose init() (line 229) added the worlds, and to each any of its
\* chunks, modified or not, in the ingest pass of its first tick: every
\* connection the model follows was accepted and logged in, its Client was
\* inserted by the drain, and its reader has ended on a read error, which
\* released the permit the accept loop now waits in accept() with.
TickInit ==
    /\ sema_closed = FALSE
    /\ sema_permits = max_connections - 1
    /\ acceptPc = "accept"
    /\ incoming = "none"
    /\ connPc = [c \in Conns |-> "none"]
    /\ writerPc = [c \in Conns |-> "running"]
    /\ new_clients = <<>>
    /\ reply = [c \in Conns |-> "none"]
    /\ inq = [c \in Conns |-> 0]
    /\ outq = [c \in Conns |-> 0]
    /\ clients = Conns
    /\ shutdown_result = None
    /\ tick_counter = 0
    /\ tickPc = "ingest"
    /\ parDone = {}
    /\ returned = None
    /\ userPc = "idle"
    /\ userRes = None
    /\ iterations = 1
    /\ phaseLog = <<"check", "drain", "ingest">>
    /\ stepLog = {}
    /\ applied = {}
    /\ worlds = Worlds
    /\ chunks \in SUBSET ChunkKeys
    /\ chunkTick = [k \in ChunkKeys |-> 0]
    /\ chunkDirty \in [ChunkKeys -> BOOLEAN]
    /\ \A k \in ChunkKeys : chunkDirty[k] => k \in chunks
    /\ DetailIdle

\* ------------------------------------------------ SharedServer::shutdown

\* Line 209: *shutdown_result.lock() = Some(res). The write replaces whatever
\* the slot held.
StoreResult(r) == shutdown_result' = r

\* Line 208, in a call made by a holder of a SharedServer handle (user code
\* in update(), in a callback or on a thread of its own): the semaphore is
\* closed first.
ShutdownClose(r) ==
    /\ userPc = "idle"
    /\ sema_closed' = TRUE
    /\ userPc' = "closed"
    /\ userRes' = r
    /\ UNCHANGED <<sema_permits, acceptPc, incoming>>
    /\ UNCHANGED <<connVars, tickVars, worldVars, clients, shutdown_result>>
    /\ UNCHANGED detailVars

\* Line 209 of the same call: the result is stored and shutdown() returns.
ShutdownStore ==
    /\ userPc = "closed"
    /\ StoreResult(userRes)
    /\ userPc' = "idle"
    /\ userRes' = None
    /\ UNCHANGED <<admissionVars, connVars, tickVars, worldVars, clients>>
    /\ UNCHANGED detailVars

\* ------------------------------------------------------ do_accept_loop

\* Lines 440-441: TcpListener::bind succeeds.
BindOk ==
    /\ acceptPc = "bind"
    /\ acceptPc' = "acquire"
    /\ UNCHANGED <<sema_closed, sema_permits, incoming>>
    /\ UNCHANGED <<connVars, tickVars, userVars, worldVars, clients,
                   shutdown_result>>
    /\ UNCHANGED detailVars

\* Lines 442-443 and 208: bind fails and the loop calls shutdown(Err(e)),
\* which closes the semaphore.
BindFail ==
    /\ acceptPc = "bind"
    /\ acceptPc' = "bind_failed"
    /\ sema_closed' = TRUE
    /\ UNCHANGED <<sema_permits, incoming>>
    /\ UNCHANGED <<connVars, tickVars, userVars, worldVars, clients,
                   shutdown_result>>
    /\ UNCHANGED detailVars

\* Lines 209 and 444: that call stores the bind error, and the loop returns.
BindFailStore ==
    /\ acceptPc = "bind_failed"
    /\ StoreResult(BindError)
    /\ acceptPc' = "aborted"
    /\ UNCHANGED <<sema_closed, sema_permits, incoming>>
    /\ UNCHANGED <<connVars, tickVars, userVars, worldVars, clients>>
    /\ UNCHANGED detailVars

\* AcquireOk as it would be if a closed semaphore still granted permits.
AcquireOkIgnoringClose ==
    /\ acceptPc = "acquire"
    /\ sema_permits > 0
    /\ sema_permits' = sema_permits - 1
    /\ acceptPc' = "accept"
    /\ UNCHANGED <<sema_closed, incoming>>
    /\ UNCHANGED <<connVars, tickVars, userVars, worldVars, clients,
                   shutdown_result>>
    /\ UNCHANGED detailVars

\* Line 449, Ok(permit): acquire_owned completes with a permit. A closed
\* semaphore grants none.
AcquireOk ==
    /\ acceptPc = "acquire"
    /\ ~sema_closed
    /\ sema_permits > 0
    /\ sema_permits' = sema_permits - 1
    /\ acceptPc' = "accept"
    /\ UNCHANGED <<sema_closed, incoming>>
    /\ UNCHANGED <<connVars, tickVars, userVars, worldVars, clients,
                   shutdown_result>>
    /\ UNCHANGED detailVars

\* Lines 449 and 471, Err(_): acquire_owned fails on the closed semaphore,
\* also when it was already waiting, and the loop returns.
AcquireClosed ==
    /\ acceptPc = "acquire"
    /\ sema_closed
    /\ acceptPc' = "done"
    /\ UNCHANGED <<sema_closed, sema_permits, incoming>>
    /\ UNCHANGED <<connVars, tickVars, userVars, worldVars, clients,
                   shutdown_result>>
    /\ UNCHANGED detailVars

\* The connections the model is not following: no task of theirs runs and
\* no Client of theirs is left in server.clients.
FreeSlots == {c \in Conns : connPc[c] = "none" /\ writerPc[c] = "none" /\ c \notin clients}

\* The slot the next accepted connection is followed in.
NewSlot == CHOOSE c \in FreeSlots : \A d \in FreeSlots : c <= d

\* The environment: a client connects to the bound listener.
ClientConnect ==
    /\ acceptPc \in {"acquire", "accept"}
    /\ incoming = "none"
    /\ FreeSlots # {}
    /\ incoming' = "conn"
    /\ UNCHANGED <<sema_closed, sema_permits, acceptPc>>
    /\ UNCHANGED <<connVars, tickVars, userVars, worldVars, clients,
                   shutdown_result>>
    /\ UNCHANGED detailVars

\* The environment: a condition arises that makes the next accept() fail.
ListenerFault ==
    /\ acceptPc \in {"acquire", "accept"}
    /\ incoming = "none"
    /\ incoming' = "fault"
    /\ UNCHANGED <<sema_closed, sema_permits, acceptPc>>
    /\ UNCHANGED <<connVars, tickVars, userVars, worldVars, clients,
                   shutdown_result>>
    /\ UNCHANGED detailVars

\* AcceptOk as it would be if the permit were not moved into the spawned
\* task: it is dropped when the arm ends.
AcceptOkPermitDropped ==
    /\ acceptPc = "accept"
    /\ incoming = "conn"
    /\ incoming' = "none"
    /\ connPc' = [connPc EXCEPT ![NewSlot] = "handshake"]
    /\ acceptPc' = "acquire"
    /\ sema_permits' = sema_permits + 1
    /\ UNCHANGED <<sema_closed>>
    /\ UNCHANGED <<writerPc, new_clients, reply, inq, outq>>
    /\ UNCHANGED <<tickVars, userVars, worldVars, clients,
                   shutdown_result>>
    /\ UNCHANGED detailVars

\* Lines 450-465: accept() returns a stream and the connection task is
\* spawned; the permit moves into the task. The accept does not look at the
\* semaphore.
AcceptOk ==
    /\ acceptPc = "accept"
    /\ incoming = "conn"
    /\ incoming' = "none"
    /\ connPc' = [connPc EXCEPT ![NewSlot] = "handshake"]
    /\ acceptPc' = "acquire"
    /\ UNCHANGED <<sema_closed, sema_permits>>
    /\ UNCHANGED <<writerPc, new_clients, reply, inq, outq>>
    /\ UNCHANGED <<tickVars, userVars, worldVars, clients,
                   shutdown_result>>
    /\ UNCHANGED detailVars

\* AcceptErr as it would be if the error branch kept the permit (forgot it)
\* instead of dropping it.
AcceptErrLeak ==
    /\ acceptPc = "accept"
    /\ incoming = "fault"
    /\ incoming' = "none"
    /\ acceptPc' = "acquire"
    /\ UNCHANGED <<sema_closed, sema_permits>>
    /\ UNCHANGED <<connVars, tickVars, userVars, worldVars, clients,
                   shutdown_result>>
    /\ UNCHANGED detailVars

\* Lines 466-469: accept() fails; the error is logged and the permit, which
\* nothing took, is dropped at the end of the arm.
AcceptErr ==
    /\ acceptPc = "accept"
    /\ incoming = "fault"
    /\ incoming' = "none"
    /\ sema_permits' = sema_permits + 1
    /\ acceptPc' = "acquire"
    /\ UNCHANGED <<sema_closed>>
    /\ UNCHANGED <<connVars, tickVars, userVars, worldVars, clients,
                   shutdown_result>>
    /\ UNCHANGED detailVars

\* --------------------------------------------- the connection task

\* Line 463, and the end of the match arm at line 469: a dropped
\* OwnedSemaphorePermit returns its permit to the semaphore.
DropPermit == sema_permits' = sema_permits + 1

\* EndConnection as it would be if the task passed the error of its
\* connection on to shutdown().
EndConnectionPropagating(c) ==
    /\ connPc' = [connPc EXCEPT ![c] = "none"]
    /\ sema_permits' = sema_permits + 1
    /\ sema_closed' = TRUE
    /\ shutdown_result' = "Err"
    /\ UNCHANGED <<acceptPc, incoming>>
    /\ UNCHANGED <<tickVars, userVars, worldVars, clients>>

\* Lines 460-463: handle_connection has returned, with Ok or with an error
\* that is only logged; the task drops its permit and ends.
EndConnection(c) ==
    /\ connPc' = [connPc EXCEPT ![c] = "none"]
    /\ DropPermit
    /\ UNCHANGED <<sema_closed, acceptPc, incoming>>
    /\ UNCHANGED <<tickVars, userVars, worldVars, clients,
                   shutdown_result>>

\* Lines 491-504: the Handshake packet is read. A read error ends the
\* connection; next_state selects handle_status or handle_login.
Handshake(c, next) ==
    /\ connPc[c] = "handshake"
    /\ IF next = "error"
       THEN EndConnection(c)
       ELSE /\ connPc' = [connPc EXCEPT ![c] = next]
            /\ UNCHANGED <<admissionVars, tickVars, userVars, worldVars, clients,
                           shutdown_result>>
    /\ UNCHANGED <<writerPc, new_clients, reply, inq, outq>>
    /\ UNCHANGED detailVars

\* Lines 507-556: handle_status returns, Ok or Err; either ends the task.
HandleStatus(c) ==
    /\ connPc[c] = "status"
    /\ EndConnection(c)
    /\ UNCHANGED <<writerPc, new_clients, reply, inq, outq>>
    /\ UNCHANGED detailVars

\* Lines 559-697 and 495-503: handle_login returns an error ("error"),
\* Ok(None) after the login callback rejected the player ("reject"), or
\* Ok(Some(npd)) ("success"), and only then handle_play is entered.
HandleLogin(c, outcome) ==
    /\ connPc[c] = "login"
    /\ IF outcome = "success"
       THEN /\ connPc' = [connPc EXCEPT ![c] = "send_new"]
            /\ UNCHANGED <<admissionVars, tickVars, userVars, worldVars, clients,
                           shutdown_result>>
       ELSE EndConnection(c)
    /\ UNCHANGED <<writerPc, new_clients, reply, inq, outq>>
    /\ UNCHANGED detailVars

\* Lines 700-709: the NewClientMessage enters new_clients; send_async waits
\* while the channel is full.
SendNewClient(c) ==
    /\ connPc[c] = "send_new"
    /\ Len(new_clients) < NewClientsCapacity
    /\ new_clients' = Append(new_clients, c)
    /\ connPc' = [connPc EXCEPT ![c] = "await_reply"]
    /\ UNCHANGED <<writerPc, reply, inq, outq>>
    /\ UNCHANGED <<admissionVars, tickVars, userVars, worldVars, clients,
                   shutdown_result>>
    /\ UNCHANGED detailVars

\* Lines 711-725: the reply arrives; the codec is split and the writer task
\* is spawned with the write half and packet_rx.
AwaitReply(c) ==
    /\ connPc[c] = "await_reply"
    /\ reply[c] = "sent"
    /\ writerPc' = [writerPc EXCEPT ![c] = "running"]
    /\ connPc' = [connPc EXCEPT ![c] = "read"]
    /\ reply' = [reply EXCEPT ![c] = "none"]
    /\ UNCHANGED <<new_clients, inq, outq>>
    /\ UNCHANGED <<admissionVars, tickVars, userVars, worldVars, clients,
                   shutdown_result>>
    /\ UNCHANGED detailVars

\* Line 728: the reader reads a packet off the wire.
ReadPacket(c) ==
    /\ connPc[c] = "read"
    /\ connPc' = [connPc EXCEPT ![c] = "send"]
    /\ UNCHANGED <<writerPc, new_clients, reply, inq, outq>>
    /\ UNCHANGED <<admissionVars, tickVars, userVars, worldVars, clients,
                   shutdown_result>>
    /\ UNCHANGED detailVars

\* Line 728, `?`: the read fails (I/O error, the 10 s timeout, a malformed
\* packet). handle_play returns the error, and with it handle_connection: the
\* read half and packet_tx are dropped and the permit is released. The
\* writer task is not told.
ReadError(c) ==
    /\ connPc[c] = "read"
    /\ EndConnection(c)
    /\ UNCHANGED <<writerPc, new_clients, reply, inq, outq>>
    /\ UNCHANGED detailVars

\* Lines 729-731: the packet is pushed into packet_tx. The send fails when
\* the Client, which holds the receiver, was dropped, and the reader leaves
\* the loop; it waits while the channel is full.
SendPacket(c) ==
    /\ connPc[c] = "send"
    /\ IF c \notin clients
       THEN /\ EndConnection(c)
            /\ UNCHANGED inq
       ELSE /\ inq[c] < incoming_packet_capacity
            /\ inq' = [inq EXCEPT ![c] = @ + 1]
            /\ connPc' = [connPc EXCEPT ![c] = "read"]
            /\ UNCHANGED <<admissionVars, tickVars, userVars, worldVars, clients,
                           shutdown_result>>
    /\ UNCHANGED <<writerPc, new_clients, reply, outq>>
    /\ UNCHANGED detailVars

\* ------------------------------------------------------ the writer task

\* Lines 719-723: the writer receives a packet and writes it; a write error
\* is logged and ends the task, which drops packet_rx and what it holds.
WriterWrite(c, ok) ==
    /\ writerPc[c] = "running"
    /\ outq[c] > 0
    /\ outq' = [outq EXCEPT ![c] = IF ok THEN @ - 1 ELSE 0]
    /\ writerPc' = [writerPc EXCEPT ![c] = IF ok THEN "running" ELSE "none"]
    /\ UNCHANGED <<connPc, new_clients, reply, inq>>
    /\ UNCHANGED <<admissionVars, tickVars, userVars, worldVars, clients,
                   shutdown_result>>
    /\ UNCHANGED detailVars

\* Line 719: recv_async fails once the Client, which holds the only sender,
\* was dropped and the channel is drained; the task ends.
WriterClosed(c) ==
    /\ writerPc[c] = "running"
    /\ outq[c] = 0
    /\ c \notin clients
    /\ writerPc' = [writerPc EXCEPT ![c] = "none"]
    /\ UNCHANGED <<connPc, new_clients, reply, inq, outq>>
    /\ UNCHANGED <<admissionVars, tickVars, userVars, worldVars, clients,
                   shutdown_result>>
    /\ UNCHANGED detailVars


\* ------------------------------------------------------ do_update_loop

\* The order of the statements of the loop body, lines 367-414.
PhaseOrder == <<"check", "drain", "ingest", "user", "pre", "clients",
                "entities", "post", "pace", "incr">>

\* Control passes to the next statement of the loop body.
Enter(p) ==
    /\ tickPc' = p
    /\ phaseLog' = Append(phaseLog, p)
    /\ parDone' = {}

\* A sub-step of a parallel pass has run on item.
StepDone(phase, item) ==
    /\ parDone' = parDone \cup {item}
    /\ stepLog' = stepLog \cup {<<phase, item[1], item[2]>>}

\* ShutdownCheck as it would be if it read the slot without take().
ShutdownCheckPeek ==
    /\ tickPc = "check"
    /\ IF shutdown_result # None
       THEN /\ returned' = shutdown_result
            /\ tickPc' = "returned"
            /\ UNCHANGED <<tick_counter, parDone, iterations, phaseLog, stepLog,
                           applied, shutdown_result>>
       ELSE /\ tick_counter < MaxTicks
            /\ Enter("drain")
            /\ iterations' = iterations + 1
            /\ UNCHANGED <<tick_counter, returned, stepLog, applied, shutdown_result>>
    /\ UNCHANGED <<admissionVars, connVars, userVars, worldVars, clients>>
    /\ UNCHANGED detailVars

\* ShutdownCheck as it would be if the iteration that finds the shutdown
\* result counted as a tick too.
ShutdownCheckCounting ==
    /\ tickPc = "check"
    /\ IF shutdown_result # None
       THEN /\ returned' = shutdown_result
            /\ shutdown_result' = None
            /\ tickPc' = "returned"
            /\ tick_counter' = tick_counter + 1
            /\ UNCHANGED <<parDone, iterations, phaseLog, stepLog, applied>>
       ELSE /\ tick_counter < MaxTicks
            /\ Enter("drain")
            /\ iterations' = iterations + 1
            /\ UNCHANGED <<tick_counter, returned, stepLog, applied, shutdown_result>>
    /\ UNCHANGED <<admissionVars, connVars, userVars, worldVars, clients>>
    /\ UNCHANGED detailVars

\* Lines 367-369: the shutdown slot is taken; a result found there is
\* returned at once, before any pass of the iteration.
ShutdownCheck ==
    /\ tickPc = "check"
    /\ IF shutdown_result # None
       THEN /\ returned' = shutdown_result
            /\ shutdown_result' = None
            /\ tickPc' = "returned"
            /\ UNCHANGED <<tick_counter, parDone, iterations, phaseLog, stepLog, applied>>
       ELSE /\ tick_counter < MaxTicks
            /\ Enter("drain")
            /\ iterations' = iterations + 1
            /\ UNCHANGED <<tick_counter, returned, stepLog, applied, shutdown_result>>
    /\ UNCHANGED <<admissionVars, connVars, userVars, worldVars, clients>>
    /\ UNCHANGED detailVars

\* Lines 371-373 and 418-430, one turn of the while loop: try_recv yields a
\* message and join_player replies the task's channel halves and inserts the
\* Client.
JoinPlayer ==
    /\ tickPc = "drain"
    /\ new_clients # <<>>
    /\ new_clients' = Tail(new_clients)
    /\ reply' = [reply EXCEPT ![Head(new_clients)] = "sent"]
    /\ clients' = clients \cup {Head(new_clients)}
    /\ UNCHANGED <<connPc, writerPc, inq, outq>>
    /\ UNCHANGED <<admissionVars, tickVars, userVars, worldVars,
                   shutdown_result>>
    /\ UNCHANGED detailVars

\* Line 371: try_recv finds new_clients empty and the while loop ends.
DrainEnd ==
    /\ tickPc = "drain"
    /\ new_clients = <<>>
    /\ Enter("ingest")
    /\ UNCHANGED <<tick_counter, returned, iterations, stepLog, applied>>
    /\ UNCHANGED <<admissionVars, connVars, userVars, worldVars, clients,
                   shutdown_result>>
    /\ UNCHANGED detailVars

\* Lines 376-378, one client of the parallel pass: handle_serverbound_packets
\* takes what the session's serverbound channel holds.
Ingest(c) ==
    /\ tickPc = "ingest"
    /\ c \in clients
    /\ <<c, 0>> \notin parDone
    /\ StepDone("ingest", <<c, 0>>)
    /\ inq' = [inq EXCEPT ![c] = 0]
    /\ UNCHANGED <<connPc, writerPc, new_clients, reply, outq>>
    /\ UNCHANGED <<tick_counter, tickPc, returned, iterations, phaseLog, applied>>
    /\ UNCHANGED <<admissionVars, userVars, worldVars, clients,
                   shutdown_result>>
    /\ UNCHANGED detailVars

\* Line 378: for_each returns when every client was handled.
IngestJoin ==
    /\ tickPc = "ingest"
    /\ \A c \in clients : <<c, 0>> \in parDone
    /\ Enter("user")
    /\ UNCHANGED <<tick_counter, returned, iterations, stepLog, applied>>
    /\ UNCHANGED <<admissionVars, connVars, userVars, worldVars, clients,
                   shutdown_result>>
    /\ UNCHANGED detailVars

\* What an update() may do to the worlds: nothing, add a chunk (with a
\* created_tick up to the current tick, modified or not), modify a chunk.
WorldOps ==
    {<<"none", 0, 0, 0, FALSE>>}
    \cup {<<"create", k[1], k[2], t, d>> :
              k \in {kk \in ChunkKeys : kk[1] \in worlds /\ kk \notin chunks},
              t \in 0..current_tick, d \in BOOLEAN}
    \cup {<<"modify", k[1], k[2], 0, TRUE>> : k \in {kk \in chunks : ~chunkDirty[kk]}}

\* Line 380: the user's update() runs on the tick thread. It may remove
\* clients from server.clients, which drops each Client with its channel
\* halves, and change the worlds.
UserUpdate(drop, op) ==
    /\ tickPc = "user"
    /\ drop \subseteq clients
    /\ op \in WorldOps
    /\ clients' = clients \ drop
    /\ inq' = [c \in Conns |-> IF c \in drop THEN 0 ELSE inq[c]]
    /\ chunks' = IF op[1] = "create" THEN chunks \cup {<<op[2], op[3]>>} ELSE chunks
    /\ chunkTick' = IF op[1] = "create"
                    THEN [chunkTick EXCEPT ![<<op[2], op[3]>>] = op[4]]
                    ELSE chunkTick
    /\ chunkDirty' = IF op[1] = "none"
                     THEN chunkDirty
                     ELSE [chunkDirty EXCEPT ![<<op[2], op[3]>>] = op[5]]
    /\ Enter("pre")
    /\ UNCHANGED worlds
    /\ UNCHANGED <<connPc, writerPc, new_clients, reply, outq>>
    /\ UNCHANGED <<tick_counter, returned, iterations, stepLog, applied>>
    /\ UNCHANGED <<admissionVars, userVars,
                   shutdown_result>>
    /\ UNCHANGED detailVars

\* Lines 383-390, one chunk of a world's parallel pass: only a chunk created
\* on the current tick has its modifications applied.
PreChunk(k) ==
    /\ tickPc = "pre"
    /\ k \in chunks
    /\ k \notin parDone
    /\ StepDone("pre", k)
    /\ IF chunkTick[k] = current_tick
       THEN /\ chunkDirty' = [chunkDirty EXCEPT ![k] = FALSE]
            /\ applied' = applied \cup {<<"pre", k[1], k[2]>>}
       ELSE UNCHANGED <<chunkDirty, applied>>
    /\ UNCHANGED <<worlds, chunks, chunkTick>>
    /\ UNCHANGED <<tick_counter, tickPc, returned, iterations, phaseLog>>
    /\ UNCHANGED <<admissionVars, connVars, userVars, clients,
                   shutdown_result>>
    /\ UNCHANGED detailVars

\* Line 392: the world's spatial index is updated once the pass over its
\* chunks has returned.
PreSpatial(w) ==
    /\ tickPc = "pre"
    /\ w \in worlds
    /\ <<w, 0>> \notin parDone
    /\ \A k \in chunks : k[1] = w => k \in parDone
    /\ StepDone("pre", <<w, 0>>)
    /\ UNCHANGED <<tick_counter, tickPc, returned, iterations, phaseLog, applied>>
    /\ UNCHANGED <<admissionVars, connVars, userVars, worldVars, clients,
                   shutdown_result>>
    /\ UNCHANGED detailVars

\* PreJoin as it would be if the pass over the worlds were not joined.
PreJoinEarly ==
    /\ tickPc = "pre"
    /\ Enter("clients")
    /\ UNCHANGED <<tick_counter, returned, iterations, stepLog, applied>>
    /\ UNCHANGED <<admissionVars, connVars, userVars, worldVars, clients,
                   shutdown_result>>
    /\ UNCHANGED detailVars

\* Line 393: for_each returns when every world was handled.
PreJoin ==
    /\ tickPc = "pre"
    /\ \A w \in worlds : <<w, 0>> \in parDone
    /\ Enter("clients")
    /\ UNCHANGED <<tick_counter, returned, iterations, stepLog, applied>>
    /\ UNCHANGED <<admissionVars, connVars, userVars, worldVars, clients,
                   shutdown_result>>
    /\ UNCHANGED detailVars

\* The receiver of a session's clientbound channel exists: it is on its way
\* to the task in the reply, or the writer task holds it.
ReceiverAlive(c) == connPc[c] = "await_reply" \/ writerPc[c] = "running"

\* Lines 395-397, one client of the parallel pass: Client::update, which may
\* queue a packet for the session's writer.
ClientUpdate(c, send) ==
    /\ tickPc = "clients"
    /\ c \in clients
    /\ <<c, 0>> \notin parDone
    /\ StepDone("clients", <<c, 0>>)
    /\ outq' = IF send /\ outq[c] < outgoing_packet_capacity /\ ReceiverAlive(c)
               THEN [outq EXCEPT ![c] = @ + 1]
               ELSE outq
    /\ UNCHANGED <<connPc, writerPc, new_clients, reply, inq>>
    /\ UNCHANGED <<tick_counter, tickPc, returned, iterations, phaseLog, applied>>
    /\ UNCHANGED <<admissionVars, userVars, worldVars, clients,
                   shutdown_result>>
    /\ UNCHANGED detailVars

\* Line 397: for_each returns when every client was updated.
ClientsJoin ==
    /\ tickPc = "clients"
    /\ \A c \in clients : <<c, 0>> \in parDone
    /\ Enter("entities")
    /\ UNCHANGED <<tick_counter, returned, iterations, stepLog, applied>>
    /\ UNCHANGED <<admissionVars, connVars, userVars, worldVars, clients,
                   shutdown_result>>
    /\ UNCHANGED detailVars

\* Line 399: server.entities.update().
EntitiesUpdate ==
    /\ tickPc = "entities"
    /\ Enter("post")
    /\ UNCHANGED <<tick_counter, returned, iterations, stepLog, applied>>
    /\ UNCHANGED <<admissionVars, connVars, userVars, worldVars, clients,
                   shutdown_result>>
    /\ UNCHANGED detailVars

\* Lines 402-404, one chunk of a world's parallel pass: every chunk has its
\* modifications applied.
PostChunk(k) ==
    /\ tickPc = "post"
    /\ k \in chunks
    /\ k \notin parDone
    /\ StepDone("post", k)
    /\ chunkDirty' = [chunkDirty EXCEPT ![k] = FALSE]
    /\ applied' = applied \cup {<<"post", k[1], k[2]>>}
    /\ UNCHANGED <<worlds, chunks, chunkTick>>
    /\ UNCHANGED <<tick_counter, tickPc, returned, iterations, phaseLog>>
    /\ UNCHANGED <<admissionVars, connVars, userVars, clients,
                   shutdown_result>>
    /\ UNCHANGED detailVars

\* Line 406: the world's metadata is updated once the pass over its chunks
\* has returned.
PostMeta(w) ==
    /\ tickPc = "post"
    /\ w \in worlds
    /\ <<w, 0>> \notin parDone
    /\ \A k \in chunks : k[1] = w => k \in parDone
    /\ StepDone("post", <<w, 0>>)
    /\ UNCHANGED <<tick_counter, tickPc, returned, iterations, phaseLog, applied>>
    /\ UNCHANGED <<admissionVars, connVars, userVars, worldVars, clients,
                   shutdown_result>>
    /\ UNCHANGED detailVars

\* Line 407: for_each returns when every world was handled.
PostJoin ==
    /\ tickPc = "post"
    /\ \A w \in worlds : <<w, 0>> \in parDone
    /\ Enter("pace")
    /\ UNCHANGED <<tick_counter, returned, iterations, stepLog, applied>>
    /\ UNCHANGED <<admissionVars, connVars, userVars, worldVars, clients,
                   shutdown_result>>
    /\ UNCHANGED detailVars

\* Lines 410-413: the thread sleeps for what is left of the tick period.
Sleep ==
    /\ tickPc = "pace"
    /\ Enter("incr")
    /\ UNCHANGED <<tick_counter, returned, iterations, stepLog, applied>>
    /\ UNCHANGED <<admissionVars, connVars, userVars, worldVars, clients,
                   shutdown_result>>
    /\ UNCHANGED detailVars

\* Line 414: tick_counter.fetch_add(1), and the loop starts over.
FetchAdd ==
    /\ tickPc = "incr"
    /\ tick_counter' = tick_counter + 1
    /\ tickPc' = "check"
    /\ phaseLog' = <<"check">>
    /\ parDone' = {}
    /\ stepLog' = {}
    /\ applied' = {}
    /\ UNCHANGED <<returned, iterations>>
    /\ UNCHANGED <<admissionVars, connVars, userVars, worldVars, clients,
                   shutdown_result>>
    /\ UNCHANGED detailVars

\* ------------------------------------------------------ specifications

Shutdown ==
    \/ \E r \in UserResults : ShutdownClose(r)
    \/ ShutdownStore

AcceptLoop ==
    \/ BindOk
    \/ BindFail
    \/ BindFailStore
    \/ AcquireOk
    \/ AcquireClosed
    \/ AcceptOk
    \/ AcceptErr

Environment ==
    \/ ClientConnect
    \/ ListenerFault

Connection ==
    \/ \E c \in Conns : \E next \in {"error", "status", "login"} : Handshake(c, next)
    \/ \E c \in Conns : HandleStatus(c)
    \/ \E c \in Conns : \E o \in {"error", "reject", "success"} : HandleLogin(c, o)
    \/ \E c \in Conns : SendNewClient(c)
    \/ \E c \in Conns : AwaitReply(c)
    \/ \E c \in Conns : ReadPacket(c)
    \/ \E c \in Conns : ReadError(c)
    \/ \E c \in Conns : SendPacket(c)
    \/ \E c \in Conns : \E ok \in BOOLEAN : WriterWrite(c, ok)
    \/ \E c \in Conns : WriterClosed(c)

TickLoop ==
    \/ ShutdownCheck
    \/ JoinPlayer
    \/ DrainEnd
    \/ \E c \in Conns : Ingest(c)
    \/ IngestJoin
    \/ \E d \in {dd \in SUBSET clients : Cardinality(dd) <= 1} :
           \E op \in WorldOps : UserUpdate(d, op)
    \/ PreJoin
    \/ \E c \in Conns : \E send \in BOOLEAN : ClientUpdate(c, send)
    \/ ClientsJoin
    \/ EntitiesUpdate
    \/ PostJoin
    \/ Sleep
    \/ FetchAdd

WorldPasses ==
    \/ \E k \in ChunkKeys : PreChunk(k)
    \/ \E w \in Worlds : PreSpatial(w)
    \/ \E k \in ChunkKeys : PostChunk(k)
    \/ \E w \in Worlds : PostMeta(w)

Next == Shutdown \/ AcceptLoop \/ Environment \/ Connection \/ TickLoop

Spec == Init /\ [][Next]_vars

\* The tick thread, the writers it feeds and the callers of shutdown(), while
\* the environment is quiet: no client connects and no accept() fails.
TickNext ==
    \/ Shutdown
    \/ ShutdownCheck
    \/ DrainEnd
    \/ \E c \in Conns : Ingest(c)
    \/ IngestJoin
    \/ \E d \in {dd \in SUBSET clients : Cardinality(dd) <= 1} :
           \E op \in WorldOps : UserUpdate(d, op)
    \/ PreJoin
    \/ \E c \in Conns : \E send \in BOOLEAN : ClientUpdate(c, send)
    \/ ClientsJoin
    \/ EntitiesUpdate
    \/ PostJoin
    \/ Sleep
    \/ FetchAdd
    \/ WorldPasses
    \/ \E c \in Conns : \E ok \in BOOLEAN : WriterWrite(c, ok)
    \/ \E c \in Conns : WriterClosed(c)

TickSpec == TickInit /\ [][TickNext]_vars

\* The tokio runtime runs a task that can make progress: each step of the
\* accept loop is taken if it stays possible. Whether a client connects, and
\* whether user code calls shutdown(), is up to the environment.
FairSpec == Spec /\ WF_vars(AcceptLoop)

\* ------------------------------------------------------------ claims

\* The connections whose task (the one running handle_connection) is alive.
LiveTasks == {c \in Conns : connPc[c] # "none"}

\* The permits taken from the semaphore and not given back: the one the
\* accept loop holds while it waits in accept(), and one per live task.
PermitsOutstanding ==
    (IF acceptPc = "accept" THEN 1 ELSE 0) + Cardinality(LiveTasks)

\* C1: in every reachable state the permits outstanding (the accept loop's
\* while it waits in accept(), one per live connection task) are at most
\* max_connections, and so are the live connection tasks.
C1_ConnectionBound ==
    /\ PermitsOutstanding <= max_connections
    /\ Cardinality(LiveTasks) <= max_connections

\* As many tasks live as there are permits, and one more client is waiting
\* to be accepted.
C1_Witness ==
    /\ Cardinality(LiveTasks) = max_connections
    /\ incoming = "conn"
    /\ acceptPc = "acquire"
    /\ ~sema_closed

\* C6: once the semaphore is closed no permit is granted: the permits
\* available never go down again, and an acquire_owned that completes, one
\* that was pending at the close included, ends the accept loop.
C6_NoPermitAfterClose ==
    [][sema_closed =>
          /\ sema_permits' >= sema_permits
          /\ (acceptPc = "acquire" /\ acceptPc' # acceptPc => acceptPc' = "done")]_vars

\* The acquire failed on the closed semaphore although every permit was
\* available.
C6_Witness ==
    /\ sema_closed
    /\ acceptPc = "done"
    /\ sema_permits = max_connections

\* C7: before shutdown, the permits available, the accept loop's and the
\* live tasks' add up to max_connections: a failed accept() and a task that
\* ended, with Ok or an error, have given theirs back.
C7_PermitsConserved ==
    ~sema_closed => sema_permits + PermitsOutstanding = max_connections

\* A session's task has ended, its Client still in server.clients, and its
\* permit is back: every permit is available or held by the accept loop.
C7_Witness ==
    /\ ~sema_closed
    /\ clients # {}
    /\ LiveTasks = {}
    /\ acceptPc = "accept"
    /\ incoming = "fault"
    /\ sema_permits = max_connections - 1

\* A call of shutdown() has returned: its result is in the slot, or the tick
\* loop has taken it.
ShutdownCalled == shutdown_result # None \/ returned # None

\* C2: after shutdown() has been called no connection is admitted: no step
\* spawns a connection task, whatever the accept loop was doing at the call.
C2_NoAdmissionAfterShutdown ==
    [][ShutdownCalled =>
          \A c \in Conns : connPc[c] = "none" => connPc'[c] = "none"]_vars

\* C3: under fair scheduling of the accept task, once the semaphore is
\* closed the accept loop eventually returns.
C3_AcceptLoopReturns == sema_closed ~> acceptPc \in {"done", "aborted"}

\* The accepted connections of which a server task holds a socket half: the
\* connection task, or the writer task with the write half.
Established == {c \in Conns : connPc[c] # "none" \/ writerPc[c] = "running"}

\* C8: the connections of which some server task holds a socket half are at
\* most max_connections.
C8_EstablishedBound == Cardinality(Established) <= max_connections

\* C4 as stated: a result stored in the slot stays there until the shutdown
\* check takes it, and that check returns it from start_server.
C4_StoredResultReturned ==
    [][shutdown_result # None =>
          \/ shutdown_result' = shutdown_result
          \/ /\ tickPc = "check"
             /\ returned' = shutdown_result
             /\ shutdown_result' = None]_vars

\* C4, amended: a shutdown check that finds the slot set returns what the
\* slot holds then (the result stored last) without beginning an iteration
\* or counting a tick, and empties the slot; the slot is emptied by nothing
\* else, so the first check after a store finds it set; start_server
\* returns once, and only at a shutdown check.
C4_CheckReturnsSlot ==
    [][/\ (tickPc = "check" /\ shutdown_result # None /\ tickVars' # tickVars) =>
              /\ tickPc' = "returned"
              /\ returned' = shutdown_result
              /\ shutdown_result' = None
              /\ iterations' = iterations
              /\ tick_counter' = tick_counter
       /\ (shutdown_result # None /\ shutdown_result' = None) =>
              /\ tickPc = "check"
              /\ returned' = shutdown_result
       /\ returned' # returned =>
              /\ tickPc = "check"
              /\ returned = None
              /\ returned' = shutdown_result
       /\ tickPc = "returned" => tickVars' = tickVars]_vars

\* start_server has returned the error a shutdown(Err) call gave, after a
\* tick had completed, and the slot is empty.
C4_Witness ==
    /\ tickPc = "returned"
    /\ returned = "Err"
    /\ shutdown_result = None
    /\ tick_counter = 1

\* C5 as stated, the bind failure: when binding failed and start_server has
\* returned, what it returned is the bind error.
C5_BindErrorReturned ==
    (acceptPc = "aborted" /\ tickPc = "returned") => returned = BindError

\* A step in which the task of connection c ends.
TaskEnds(c) == connPc[c] # "none" /\ connPc'[c] = "none"

\* C5, amended: the tick loop returns only from a state where the slot is
\* set, with what the slot holds; the slot is set only by the store of a
\* shutdown() call made by user code or of the call made on a failed bind,
\* which stores the bind error; the accept loop ends only after the
\* semaphore was closed; and a step that ends a connection's task changes
\* neither the slot, the tick loop, the accept loop, the semaphore's closed
\* flag nor another connection's task.
C5_OnlyShutdownTerminates ==
    [][/\ (tickPc' = "returned" /\ tickPc # "returned") =>
              /\ shutdown_result # None
              /\ returned' = shutdown_result
       /\ (shutdown_result' # shutdown_result /\ shutdown_result' # None) =>
              \/ /\ userPc = "closed"
                 /\ userPc' = "idle"
                 /\ shutdown_result' = userRes
              \/ /\ acceptPc = "bind_failed"
                 /\ acceptPc' = "aborted"
                 /\ shutdown_result' = BindError
       /\ (acceptPc = "bind_failed" /\ acceptPc' # acceptPc) =>
              shutdown_result' = BindError
       /\ (acceptPc' # acceptPc /\ acceptPc' \in {"done", "aborted"}) => sema_closed
       /\ \A c \in Conns : TaskEnds(c) =>
              /\ UNCHANGED <<shutdown_result, tickVars, acceptPc, sema_closed>>
              /\ \A d \in Conns \ {c} : connPc'[d] = connPc[d]]_vars

\* A session's reader has ended on a read error, its Client still in
\* server.clients, and a tick later the server runs on: nothing is stored,
\* the semaphore is open, the accept loop and the tick loop are running.
C5_Witness ==
    /\ clients # {}
    /\ LiveTasks = {}
    /\ tick_counter >= 1
    /\ shutdown_result = None
    /\ ~sema_closed
    /\ acceptPc = "acquire"
    /\ tickPc = "drain"

\* The tick iterations that ran to their end: those begun, less the one in
\* progress.
CompletedIterations ==
    IF tickPc \in {"check", "returned"} THEN iterations ELSE iterations - 1

\* C9: the tick counter starts at 0, always equals the number of completed
\* iterations, changes only by the +1 at the end of an iteration, and is
\* left alone by the iteration that finds the shutdown result; so samples of
\* current_tick() never decrease.
C9_TickCounter ==
    /\ tick_counter = 0
    /\ [](current_tick = CompletedIterations)
    /\ [][\/ tick_counter' = tick_counter
          \/ /\ tickPc = "incr"
             /\ tickPc' = "check"
             /\ tick_counter' = tick_counter + 1]_vars
    /\ [][tickPc' = "returned" => tick_counter' = tick_counter]_vars

\* start_server has returned on the check that followed one completed tick.
C9_Witness ==
    /\ tickPc = "returned"
    /\ iterations = 1
    /\ tick_counter = 1

\* The running iteration has left phase p behind.
Passed(p) == \E i \in 1..(Len(phaseLog) - 1) : phaseLog[i] = p

\* The sub-steps of a world's pass over its chunks are all logged for phase p.
ChunksDone(p, w) ==
    \A k \in chunks : k[1] = w => <<p, k[1], k[2]>> \in stepLog

\* C10: the phases an iteration has entered are a prefix of the fixed order
\* and end with the running one; a sub-step runs only in its own phase;
\* when a phase is left, every client (ingest, client update) and every
\* chunk and world (pre-pass, post-pass) has had its sub-step; a world's
\* spatial-index or metadata update follows the pass over its chunks; the
\* pre-pass applies exactly the chunks created on the current tick, the
\* post-pass all, so none is modified at the pacing; and the counter is
\* incremented only when all ten phases were entered.
C10_PhaseOrder ==
    /\ [](/\ Len(phaseLog) <= Len(PhaseOrder)
          /\ \A i \in 1..Len(phaseLog) : phaseLog[i] = PhaseOrder[i]
          /\ tickPc # "returned" => phaseLog[Len(phaseLog)] = tickPc
          /\ \A s \in stepLog : \E i \in 1..Len(phaseLog) : phaseLog[i] = s[1]
          /\ Passed("ingest") => \A c \in clients : <<"ingest", c, 0>> \in stepLog
          /\ Passed("clients") => \A c \in clients : <<"clients", c, 0>> \in stepLog
          /\ \A p \in {"pre", "post"} :
                /\ Passed(p) => \A w \in worlds : <<p, w, 0>> \in stepLog
                /\ \A w \in worlds : <<p, w, 0>> \in stepLog => ChunksDone(p, w)
          /\ \A k \in chunks :
                /\ <<"pre", k[1], k[2]>> \in applied <=>
                      (<<"pre", k[1], k[2]>> \in stepLog /\ chunkTick[k] = current_tick)
                /\ <<"post", k[1], k[2]>> \in applied <=>
                      <<"post", k[1], k[2]>> \in stepLog
                /\ Passed("post") => ~chunkDirty[k])
    /\ [][/\ \A s \in stepLog' \ stepLog : s[1] = tickPc /\ tickPc' = tickPc
          /\ tick_counter' # tick_counter => phaseLog = PhaseOrder]_vars

\* The end of the second tick: a chunk of an earlier tick was left alone by
\* the pre-pass and applied by the post-pass, a chunk created on this tick
\* was applied by both, and the clients were updated in between.
C10_Witness ==
    /\ tickPc = "incr"
    /\ tick_counter = 1
    /\ clients # {}
    /\ \E k \in chunks :
          /\ chunkTick[k] < current_tick
          /\ <<"pre", k[1], k[2]>> \notin applied
          /\ <<"post", k[1], k[2]>> \in applied
    /\ \E k \in chunks :
          /\ chunkTick[k] = current_tick
          /\ <<"pre", k[1], k[2]>> \in applied
          /\ <<"post", k[1], k[2]>> \in applied

\* The tokio runtime and the tick thread run what can make progress: a step
\* of the accept loop, of a connection's tasks or of the tick loop is taken
\* if it stays possible. Clients and callers of shutdown() are free.
LiveSpec ==
    /\ Spec
    /\ WF_vars(AcceptLoop)
    /\ WF_vars(Connection)
    /\ WF_vars(TickLoop)

\* The task of connection c is at the handoff and its NewClientMessage was
\* not drained: it waits to send it, or waits for the reply to it.
AtHandoff(c) ==
    /\ connPc[c] \in {"send_new", "await_reply"}
    /\ reply[c] = "none"

\* C13: once the tick loop has returned, a task at the handoff whose message
\* was not drained ends (handle_play exits and the permit is released).
C13_HandoffTaskEnds ==
    \A c \in Conns : (returned # None /\ AtHandoff(c)) ~> connPc[c] = "none"

\* ------------------------------------------- a session, packet by packet

allVars == <<vars, detailVars>>

\* Number of packets followed in each direction of the session.
MaxPackets == 3

\* a is an initial piece of b.
IsPrefix(a, b) ==
    /\ Len(a) <= Len(b)
    /\ \A i \in 1..Len(a) : a[i] = b[i]

\* Line 728, Ok: dec.read_packet() yields the next packet of the wire.
SessionRead ==
    /\ s_reader = "read"
    /\ Len(s_wire) < MaxPackets
    /\ s_wire' = Append(s_wire, Len(s_wire) + 1)
    /\ s_reader' = "send"
    /\ UNCHANGED <<s_in, s_recv, s_sent, s_out, s_hold, s_written, s_writer,
                   s_client, s_seen>>
    /\ UNCHANGED sessionRest

\* Line 728, `?`: the read fails (I/O error, the read timeout, a malformed
\* packet) and handle_play returns, dropping packet_tx.
SessionReadError ==
    /\ s_reader = "read"
    /\ s_reader' = "done"
    /\ UNCHANGED <<s_wire, s_in, s_recv, s_sent, s_out, s_hold, s_written,
                   s_writer, s_client, s_seen>>
    /\ UNCHANGED sessionRest

\* SessionSend as it would be with a try_send: on a full channel the packet
\* is dropped and the reader goes on.
SessionSendLossy ==
    /\ s_reader = "send"
    /\ IF ~s_client
       THEN /\ s_reader' = "done"
            /\ UNCHANGED s_in
       ELSE /\ s_in' = IF Len(s_in) < incoming_packet_capacity
                       THEN Append(s_in, s_wire[Len(s_wire)])
                       ELSE s_in
            /\ s_reader' = "read"
    /\ UNCHANGED <<s_wire, s_recv, s_sent, s_out, s_hold, s_written, s_writer,
                   s_client, s_seen>>
    /\ UNCHANGED sessionRest

\* Lines 729-731: packet_tx.send_async(pkt). It fails once the receiver is
\* gone with the Client, also for a send that was waiting, and the reader
\* leaves the loop; it waits while the channel is full.
SessionSend ==
    /\ s_reader = "send"
    /\ IF ~s_client
       THEN /\ s_reader' = "done"
            /\ UNCHANGED s_in
       ELSE /\ Len(s_in) < incoming_packet_capacity
            /\ s_in' = Append(s_in, s_wire[Len(s_wire)])
            /\ s_reader' = "read"
    /\ UNCHANGED <<s_wire, s_recv, s_sent, s_out, s_hold, s_written, s_writer,
                   s_client, s_seen>>
    /\ UNCHANGED sessionRest

\* Lines 376-378, handle_serverbound_packets on this Client: a receive from
\* the serverbound channel yields its oldest packet, or, the channel empty
\* and the reader gone, reports the disconnection.
TickReceive ==
    /\ s_client
    /\ IF s_in # <<>>
       THEN /\ s_recv' = Append(s_recv, Head(s_in))
            /\ s_in' = Tail(s_in)
            /\ UNCHANGED s_seen
       ELSE /\ s_reader = "done"
            /\ "serverbound" \notin s_seen
            /\ s_seen' = s_seen \cup {"serverbound"}
            /\ UNCHANGED <<s_recv, s_in>>
    /\ UNCHANGED <<s_wire, s_sent, s_out, s_hold, s_written, s_reader,
                   s_writer, s_client>>
    /\ UNCHANGED sessionRest

\* Lines 395-397, Client::update on this Client: a packet is sent into the
\* clientbound channel if it has room; the send fails once the writer has
\* dropped the receiver.
TickEnqueue ==
    /\ s_client
    /\ Len(s_sent) < MaxPackets
    /\ IF s_writer = "done"
       THEN /\ "clientbound" \notin s_seen
            /\ s_seen' = s_seen \cup {"clientbound"}
            /\ UNCHANGED <<s_sent, s_out>>
       ELSE /\ Len(s_out) < outgoing_packet_capacity
            /\ s_out' = Append(s_out, Len(s_sent) + 1)
            /\ s_sent' = Append(s_sent, Len(s_sent) + 1)
            /\ UNCHANGED s_seen
    /\ UNCHANGED <<s_wire, s_in, s_recv, s_hold, s_written, s_reader,
                   s_writer, s_client>>
    /\ UNCHANGED sessionRest

\* Line 380: update() removes the Client; the receiver of the serverbound
\* channel goes with what it holds, and the sender of the clientbound
\* channel, whose queued packets stay for the writer.
TickDropClient ==
    /\ s_client
    /\ s_client' = FALSE
    /\ s_in' = <<>>
    /\ UNCHANGED <<s_wire, s_recv, s_sent, s_out, s_hold, s_written, s_reader,
                   s_writer, s_seen>>
    /\ UNCHANGED sessionRest

\* SessionWriterRecv as it would be if the disconnection of the channel did
\* not wake the receive.
SessionWriterRecvWaiting ==
    /\ s_writer = "recv"
    /\ s_out # <<>>
    /\ s_hold' = Head(s_out)
    /\ s_out' = Tail(s_out)
    /\ s_writer' = "write"
    /\ UNCHANGED <<s_wire, s_in, s_recv, s_sent, s_written, s_reader,
                   s_client, s_seen>>
    /\ UNCHANGED sessionRest

\* Line 719: packet_rx.recv_async() yields the oldest queued packet; with
\* the channel empty it fails once the Client, the only sender, is gone, and
\* waits otherwise.
SessionWriterRecv ==
    /\ s_writer = "recv"
    /\ IF s_out # <<>>
       THEN /\ s_hold' = Head(s_out)
            /\ s_out' = Tail(s_out)
            /\ s_writer' = "write"
       ELSE /\ ~s_client
            /\ s_writer' = "done"
            /\ UNCHANGED <<s_hold, s_out>>
    /\ UNCHANGED <<s_wire, s_in, s_recv, s_sent, s_written, s_reader,
                   s_client, s_seen>>
    /\ UNCHANGED sessionRest

\* SessionWriterWrite as it would be if a write error were logged and the
\* loop went on with the next packet.
SessionWriterWriteOn(ok) ==
    /\ s_writer = "write"
    /\ s_written' = IF ok THEN Append(s_written, s_hold) ELSE s_written
    /\ s_writer' = "recv"
    /\ s_hold' = 0
    /\ UNCHANGED <<s_wire, s_in, s_recv, s_sent, s_out, s_reader, s_client,
                   s_seen>>
    /\ UNCHANGED sessionRest

\* Lines 720-723: enc.write_packet(&pkt); an error is logged and breaks the
\* loop, and the task ends, dropping packet_rx with what is queued.
SessionWriterWrite(ok) ==
    /\ s_writer = "write"
    /\ IF ok
       THEN /\ s_written' = Append(s_written, s_hold)
            /\ s_writer' = "recv"
            /\ UNCHANGED s_out
       ELSE /\ s_writer' = "done"
            /\ s_out' = <<>>
            /\ UNCHANGED s_written
    /\ s_hold' = 0
    /\ UNCHANGED <<s_wire, s_in, s_recv, s_sent, s_reader, s_client, s_seen>>
    /\ UNCHANGED sessionRest

SessionReader ==
    \/ SessionRead
    \/ SessionReadError
    \/ SessionSend

SessionWriter ==
    \/ SessionWriterRecv
    \/ \E ok \in BOOLEAN : SessionWriterWrite(ok)

SessionTick ==
    \/ TickReceive
    \/ TickEnqueue
    \/ TickDropClient

SessionNext == SessionReader \/ SessionWriter \/ SessionTick

\* The session of a server that is otherwise at rest.
SessionStart ==
    /\ InitServer
    /\ worlds = {}
    /\ chunks = {}
    /\ chunkTick = [k \in ChunkKeys |-> 0]
    /\ chunkDirty = [k \in ChunkKeys |-> FALSE]
    /\ SessionInit
    /\ HandoffIdle
    /\ StatusIdle
    /\ ConfigIdle
    /\ HexIdle
    /\ LoginIdle

SessionSpec == SessionStart /\ [][SessionNext]_allVars

\* The runtime runs the reader and the writer when they can take a step; a
\* read ends, with a packet or with the timeout's error, and so does a write.
SessionLiveSpec ==
    /\ SessionSpec
    /\ WF_allVars(SessionReader)
    /\ WF_allVars(SessionWriter)

\* C11: what the tick loop has received from the session's serverbound
\* channel, followed by what the channel holds, is an initial piece of what
\* the reader has read off the wire: same packets, same order, none twice,
\* none skipped; and nothing read is missing while the Client is there.
C11_ReceivedPrefixOfWire ==
    /\ IsPrefix(s_recv \o s_in, s_wire)
    /\ \A i \in 1..Len(s_wire) : \A j \in 1..Len(s_wire) :
          s_wire[i] = s_wire[j] => i = j
    /\ (s_client /\ s_reader = "read") => s_recv \o s_in = s_wire

\* The tick loop has received one packet and the channel holds the next two,
\* all the reader has read.
C11_Witness ==
    /\ s_recv = <<1>>
    /\ s_in = <<2, 3>>
    /\ s_wire = <<1, 2, 3>>

\* The packet the writer has received and not yet written.
InWriterHand == IF s_writer = "write" THEN <<s_hold>> ELSE <<>>

\* C12: what the writer has written, followed by the packet in its hand and
\* what the clientbound channel holds, is an initial piece of what the tick
\* loop enqueued; and once the writer has ended, on a write error or on the
\* channel's disconnection, nothing more is written.
C12_WrittenPrefixOfSent ==
    /\ [](IsPrefix(s_written \o InWriterHand \o s_out, s_sent))
    /\ [][s_writer = "done" =>
             /\ s_writer' = "done"
             /\ s_written' = s_written]_allVars

\* The write of the second packet failed with the third one queued: the
\* writer has ended with one packet written of three enqueued.
C12_Witness ==
    /\ s_writer = "done"
    /\ s_client
    /\ s_written = <<1>>
    /\ s_sent = <<1, 2, 3>>
    /\ s_out = <<>>

\* C14 as stated: once the Client is dropped, the reader's next send and the
\* writer's next receive end their task.
C14_ExitAtNextOperation ==
    [][~s_client =>
          /\ (s_reader = "send" /\ s_reader' # s_reader) => s_reader' = "done"
          /\ (s_writer = "recv" /\ s_writer' # s_writer) => s_writer' = "done"]_allVars

\* C14, amended: once the Client is dropped nothing more enters either
\* channel; the reader's next send ends it; the writer still receives the
\* packets queued at the drop and ends at the first receive that finds the
\* channel empty; so both tasks end (the reader with the read timeout at the
\* latest). Conversely the tick loop comes upon a closed half only when the
\* task at its other end is gone: a send into the clientbound channel fails
\* from the moment the writer has ended, a receive from the serverbound
\* channel reports the disconnection when the reader has ended and the
\* channel is drained.
C14_CooperativeCancellation ==
    /\ [][~s_client =>
             /\ (s_reader = "send" /\ s_reader' # s_reader) => s_reader' = "done"
             /\ (s_writer = "recv" /\ s_writer' # s_writer /\ s_out = <<>>) =>
                    s_writer' = "done"
             /\ s_in' = <<>>
             /\ IsPrefix(s_out', s_out) \/ s_out' = Tail(s_out)
             /\ s_sent' = s_sent /\ s_recv' = s_recv]_allVars
    /\ [][/\ s_writer = "done" => s_sent' = s_sent
          /\ "clientbound" \in s_seen' => s_writer = "done"
          /\ "serverbound" \in s_seen' => (s_reader = "done" /\ s_in = <<>>)]_allVars
    /\ (~s_client) ~> (s_reader = "done" /\ s_writer = "done")

\* The Client was dropped with packets queued for the writer, which wrote
\* them before it ended; the reader had read a packet that was never
\* received, and ended too.
C14_Witness ==
    /\ ~s_client
    /\ s_reader = "done"
    /\ s_writer = "done"
    /\ s_written = <<1, 2>>
    /\ s_sent = <<1, 2>>
    /\ Len(s_wire) > Len(s_recv)

\* ------------------------------------------- start_server, setup_server

\* u16::MAX, the bound of lines 268 and 303.
U16_MAX == 65535

\* The server's tasks before anything has run.
ServerAtRest ==
    /\ InitServer
    /\ worlds = {}
    /\ chunks = {}
    /\ chunkTick = [k \in ChunkKeys |-> 0]
    /\ chunkDirty = [k \in ChunkKeys |-> FALSE]

\* The dimensions a configuration is tried with in its last place.
Dimensions ==
    [min_y : {-2048, -2032, -60, -64, 2016},
     height : {-16, 0, 8, 384, 4064},
     ambient_light : {-1, 0, 100, 101},
     fixed_time : {{}, {-1}, {0}, {24000}, {24001}}]

\* The configurations start_server is tried with.
Configs ==
    [tick_rate : {0, 20},
     incoming : {0, incoming_packet_capacity},
     outgoing : {0, outgoing_packet_capacity},
     dimension_count : {0, 1, 2, U16_MAX + 1},
     dimension : Dimensions,
     biome_count : {0, 1, 2, U16_MAX, U16_MAX + 1, U16_MAX + 2},
     biome_dup : BOOLEAN]

\* dimensions[i - 1] of configuration c.
Dimension(c, i) == IF i = c.dimension_count THEN c.dimension ELSE ValidDimension

\* biomes[i - 1].name of configuration c.
BiomeName(c, i) == IF c.biome_dup /\ i = c.biome_count THEN 1 ELSE i

\* Lines 273-296, the body of the loop for one dimension: the first check
\* that fails, "panic" for the assert! on fixed_time, or "ok".
CheckDimension(dim) ==
    IF ~(dim.min_y % 16 = 0 /\ dim.min_y >= -2032 /\ dim.min_y <= 2016)
    THEN "min_y"
    ELSE IF ~(/\ dim.height % 16 = 0
              /\ dim.height >= 0 /\ dim.height <= 4064
              /\ dim.min_y + dim.height <= 2032)
    THEN "height"
    ELSE IF ~(dim.ambient_light >= 0 /\ dim.ambient_light <= 100)
    THEN "ambient_light"
    ELSE IF \E fixed_time \in dim.fixed_time : ~(fixed_time >= 0 /\ fixed_time <= 24000)
    THEN "panic"
    ELSE "ok"

\* Lines 272-297: the loop over the dimensions from the i-th on.
RECURSIVE CheckDimensions(_, _)
CheckDimensions(c, i) ==
    IF i > c.dimension_count
    THEN "ok"
    ELSE IF CheckDimension(Dimension(c, i)) # "ok"
    THEN CheckDimension(Dimension(c, i))
    ELSE CheckDimensions(c, i + 1)

\* BiomeCountOk as it would be if a list of 2^16 biomes were let through.
BiomeCountOkUpTo65536(n) == n <= U16_MAX + 1

\* Lines 302-305: biomes.len() <= u16::MAX as usize.
BiomeCountOk(n) == n <= U16_MAX

\* Lines 307-315: names.insert() returns false for a name the set has; the
\* loop passes when the names are as many as the biomes.
BiomeNamesUnique(c) ==
    Cardinality({BiomeName(c, i) : i \in 1..c.biome_count}) = c.biome_count

\* Lines 236-315: the checks of setup_server in their order. The value is
\* the first that fails, "panic", or "ok" when all pass.
CheckConfig(c) ==
    IF ~(c.tick_rate > 0) THEN "tick_rate"
    ELSE IF ~(c.incoming > 0) THEN "incoming_packet_capacity"
    ELSE IF ~(c.outgoing > 0) THEN "outgoing_packet_capacity"
    ELSE IF c.dimension_count = 0 THEN "no_dimension"
    ELSE IF ~(c.dimension_count <= U16_MAX) THEN "too_many_dimensions"
    ELSE IF CheckDimensions(c, 1) # "ok" THEN CheckDimensions(c, 1)
    ELSE IF c.biome_count = 0 THEN "no_biome"
    ELSE IF ~BiomeCountOk(c.biome_count) THEN "too_many_biomes"
    ELSE IF ~BiomeNamesUnique(c) THEN "duplicate_biome"
    ELSE "ok"

\* Line 218: setup_server(config).map_err(ShutdownError::from)?. A failed
\* ensure! makes start_server return the error; the failed assert! panics;
\* with every check passed the key pair or the runtime can still fail
\* (lines 317, 326, envOk false).
SetupServer(envOk) ==
    /\ startPc = "setup"
    /\ IF CheckConfig(cfg) = "panic"
       THEN /\ startPc' = "panicked"
            /\ UNCHANGED <<startResult, setupError>>
       ELSE IF CheckConfig(cfg) # "ok" \/ ~envOk
       THEN /\ startPc' = "returned"
            /\ startResult' = "Err"
            /\ setupError' = IF CheckConfig(cfg) # "ok"
                             THEN CheckConfig(cfg) ELSE "environment"
       ELSE /\ startPc' = "init"
            /\ UNCHANGED <<startResult, setupError>>
    /\ UNCHANGED cfg
    /\ UNCHANGED configRest

\* Line 229: shared.config().init(&mut server).
CallInit ==
    /\ startPc = "init"
    /\ startPc' = "spawn"
    /\ UNCHANGED <<cfg, startResult, setupError>>
    /\ UNCHANGED configRest

\* Line 231: tokio::spawn(do_accept_loop(shared)).
SpawnAcceptLoop ==
    /\ startPc = "spawn"
    /\ startPc' = "update_loop"
    /\ UNCHANGED <<cfg, startResult, setupError>>
    /\ UNCHANGED configRest

ConfigNext ==
    \/ \E envOk \in BOOLEAN : SetupServer(envOk)
    \/ CallInit
    \/ SpawnAcceptLoop

\* start_server called with any of the configurations.
ConfigInit ==
    /\ ServerAtRest
    /\ SessionInit
    /\ HandoffIdle
    /\ StatusIdle
    /\ HexIdle
    /\ LoginIdle
    /\ cfg \in Configs
    /\ startPc = "setup"
    /\ startResult = None
    /\ setupError = None

ConfigSpec == ConfigInit /\ [][ConfigNext]_allVars

\* A dimension is out of range in min_y, height, ambient_light or
\* fixed_time.
DimensionOutOfRange(dim) ==
    \/ ~(dim.min_y % 16 = 0 /\ dim.min_y >= -2032 /\ dim.min_y <= 2016)
    \/ ~(/\ dim.height % 16 = 0
         /\ dim.height >= 0 /\ dim.height <= 4064
         /\ dim.min_y + dim.height <= 2032)
    \/ ~(dim.ambient_light >= 0 /\ dim.ambient_light <= 100)
    \/ \E fixed_time \in dim.fixed_time : ~(fixed_time >= 0 /\ fixed_time <= 24000)

\* The configuration is invalid in one of the checked ways.
InvalidConfig(c) ==
    \/ c.tick_rate = 0
    \/ c.incoming = 0
    \/ c.outgoing = 0
    \/ c.dimension_count = 0
    \/ c.biome_count = 0
    \/ c.dimension_count > U16_MAX
    \/ c.biome_count > U16_MAX
    \/ \E i \in 1..c.dimension_count : DimensionOutOfRange(Dimension(c, i))
    \/ ~BiomeNamesUnique(c)

\* C15: on a configuration invalid in one of the checked ways, start_server
\* returns an error, from setup_server: init was not called, the accept loop
\* not spawned, no tick run, and it did not panic.
C15_InvalidConfigReturnsError ==
    (startPc # "setup" /\ InvalidConfig(cfg)) =>
        /\ startPc = "returned"
        /\ startResult = "Err"
        /\ setupError \notin {None, "environment"}

\* Every check of setup_server but those on the biome list passes on c.
OtherwiseValid(c) ==
    CheckConfig([c EXCEPT !.biome_count = 1, !.biome_dup = FALSE]) = "ok"

\* setup_server let the biome list through.
BiomesAccepted == setupError \in {None, "environment"}

\* C16 as stated: a list of 2^16 biomes with unique names is accepted, one
\* of 2^16 + 1 is rejected, and one with a repeated name is rejected.
C16_AcceptsTwoToThe16 ==
    (startPc # "setup" /\ OtherwiseValid(cfg)) =>
        /\ (cfg.biome_count = U16_MAX + 1 /\ ~cfg.biome_dup) => BiomesAccepted
        /\ cfg.biome_count = U16_MAX + 2 => ~BiomesAccepted
        /\ (cfg.biome_dup /\ cfg.biome_count >= 2) => ~BiomesAccepted

\* C16, amended: a list of u16::MAX = 2^16 - 1 biomes with unique names is
\* accepted, one of 2^16 or more is rejected as too long, and one with a
\* repeated name is rejected at any size; a rejection is returned as an
\* error.
C16_BiomeListBound ==
    (startPc # "setup" /\ OtherwiseValid(cfg)) =>
        /\ (cfg.biome_count = U16_MAX /\ ~cfg.biome_dup) =>
               /\ BiomesAccepted
               /\ startPc = "returned" => setupError = "environment"
        /\ cfg.biome_count >= U16_MAX + 1 =>
               /\ setupError = "too_many_biomes"
               /\ startPc = "returned" /\ startResult = "Err"
        /\ (cfg.biome_dup /\ cfg.biome_count >= 2) =>
               /\ setupError \in {"too_many_biomes", "duplicate_biome"}
               /\ startPc = "returned" /\ startResult = "Err"
        /\ (cfg.biome_dup /\ cfg.biome_count \in 2..U16_MAX) =>
               setupError = "duplicate_biome"

\* start_server has reached do_update_loop with a list of u16::MAX biomes.
C16_Witness ==
    /\ startPc = "update_loop"
    /\ cfg.biome_count = U16_MAX
    /\ ~cfg.biome_dup

\* --------------------------------------------------- weird_hex_encoding

\* Length of the longest byte string encoded.
MaxBytes == 2

Bytes == 0..255

\* The byte strings weird_hex_encoding is tried on.
ByteStrings == UNION {[1..n -> Bytes] : n \in 0..MaxBytes}

RECURSIVE Pow256(_)
Pow256(n) == IF n = 0 THEN 1 ELSE 256 * Pow256(n - 1)

\* BigUint::from_bytes_be: the bytes as a big-endian natural number.
RECURSIVE FromBytesBe(_)
FromBytesBe(b) ==
    IF b = <<>>
    THEN 0
    ELSE 256 * FromBytesBe(SubSeq(b, 1, Len(b) - 1)) + b[Len(b)]

\* num-bigint's twos_complement_be: from the last byte to the first, each
\* byte is inverted, and incremented (wrapping) while the carry lasts.
RECURSIVE TwosComplementBe(_, _)
TwosComplementBe(b, carry) ==
    IF b = <<>>
    THEN <<>>
    ELSE LET d == IF carry THEN (256 - b[Len(b)]) % 256 ELSE 255 - b[Len(b)]
         IN  Append(TwosComplementBe(SubSeq(b, 1, Len(b) - 1), carry /\ d = 0), d)

\* FromSignedBytesBe as it would be with BigInt::from_bytes_be(Sign::Plus, _).
FromUnsignedBytesBe(b) == [minus |-> FALSE, magnitude |-> FromBytesBe(b)]

\* BigInt::from_signed_bytes_be: the sign is the top bit of the first byte;
\* a negative value's magnitude is that of the two's complement; the empty
\* slice is zero.
FromSignedBytesBe(b) ==
    IF b = <<>>
    THEN [minus |-> FALSE, magnitude |-> 0]
    ELSE IF b[1] > 127
    THEN [minus |-> TRUE, magnitude |-> FromBytesBe(TwosComplementBe(b, TRUE))]
    ELSE [minus |-> FALSE, magnitude |-> FromBytesBe(b)]

HexDigits == <<"0", "1", "2", "3", "4", "5", "6", "7", "8", "9",
               "a", "b", "c", "d", "e", "f">>

\* The base-16 digits of a natural number, most significant first.
RECURSIVE ToDigits16(_)
ToDigits16(n) ==
    IF n < 16
    THEN <<HexDigits[n + 1]>>
    ELSE Append(ToDigits16(n \div 16), HexDigits[(n % 16) + 1])

\* BigInt::to_str_radix(16): '-' for a negative value, then the digits.
ToStrRadix16(v) ==
    IF v.minus THEN <<"-">> \o ToDigits16(v.magnitude) ELSE ToDigits16(v.magnitude)

\* Line 738.
weird_hex_encoding(bytes) == ToStrRadix16(FromSignedBytesBe(bytes))

\* A call of weird_hex_encoding returns.
HexEncode ==
    /\ hexString = <<>>
    /\ hexString' = weird_hex_encoding(hexBytes)
    /\ UNCHANGED hexBytes
    /\ UNCHANGED hexRest

\* weird_hex_encoding called on any of the byte strings.
HexInit ==
    /\ ServerAtRest
    /\ SessionInit
    /\ HandoffIdle
    /\ StatusIdle
    /\ ConfigIdle
    /\ LoginIdle
    /\ hexBytes \in ByteStrings
    /\ hexString = <<>>

HexSpec == HexInit /\ [][HexEncode]_allVars

\* The value of a hexadecimal digit.
DigitValue(ch) == (CHOOSE i \in 1..16 : HexDigits[i] = ch) - 1

\* A string of hexadecimal digits read as a natural number.
RECURSIVE ParseDigits16(_)
ParseDigits16(str) ==
    IF str = <<>>
    THEN 0
    ELSE 16 * ParseDigits16(SubSeq(str, 1, Len(str) - 1)) + DigitValue(str[Len(str)])

\* A string read as a signed integer in base 16.
ParseSigned16(str) ==
    IF str[1] = "-" THEN 0 - ParseDigits16(Tail(str)) ELSE ParseDigits16(str)

\* The integer a byte string stands for in big-endian two's complement.
SignedValue(b) ==
    IF b # <<>> /\ b[1] > 127 THEN FromBytesBe(b) - Pow256(Len(b)) ELSE FromBytesBe(b)

\* The digits of an encoding, without the sign.
DigitsOf(str) == IF str[1] = "-" THEN Tail(str) ELSE str

\* C17: the encoding of a byte string is a '-' exactly when its top bit is
\* set, followed by at least one hexadecimal digit with no leading zero
\* (but for "0" itself), and read back as a signed base-16 integer it is the
\* big-endian two's-complement value of the byte string.
C17_WeirdHexRoundTrip ==
    hexString # <<>> =>
        /\ (hexString[1] = "-") <=> (hexBytes # <<>> /\ hexBytes[1] > 127)
        /\ DigitsOf(hexString) # <<>>
        /\ \A i \in 1..Len(DigitsOf(hexString)) :
              \E j \in 1..16 : HexDigits[j] = DigitsOf(hexString)[i]
        /\ Len(DigitsOf(hexString)) > 1 => DigitsOf(hexString)[1] # "0"
        /\ ParseSigned16(hexString) = SignedValue(hexBytes)

\* The bytes ff 80, -128 in two's complement, are encoded "-80".
C17_Witness ==
    /\ hexBytes = <<255, 128>>
    /\ hexString = <<"-", "8", "0">>

\* ----------------------------------------- handle_login, handle_connection

\* Line 663.
compression_threshold == 256

\* What a connection at login is tried with: the server's online_mode, the
\* token_or_sig of the EncryptionResponse (a verify token that decrypts to
\* the one sent, one that decrypts to another, or a message signature), and
\* the answer of the login callback.
LoginCfgs ==
    [online_mode : BOOLEAN,
     token : {"match", "mismatch", "sig"},
     login : {"Ok", "Err"}]

Halves == {"enc", "dec"}

\* The events of l_log.
Written(p) == [ev |-> "write", packet |-> p]
WrittenEncryptionRequest ==
    [ev |-> "write", packet |-> "EncryptionRequest", server_id |-> ""]
WrittenSetCompression ==
    [ev |-> "write", packet |-> "SetCompression", threshold |-> compression_threshold]
ReadEncryptionResponse == [ev |-> "read", packet |-> "EncryptionResponse"]
EncryptionEnabled(h) == [ev |-> "enable_encryption", half |-> h]
CompressionEnabled(h) ==
    [ev |-> "enable_compression", half |-> h, threshold |-> compression_threshold]
SessionRequested == [ev |-> "session_request"]
LoginCalled == [ev |-> "login"]

\* handle_login returns Err(e).
LoginFails(e) ==
    /\ l_result' = e
    /\ l_pc' = "login_returned"

\* Lines 564-571: LoginStart is read and the username checked; the branch on
\* online_mode follows.
ReadLoginStart(readOk, validUsername) ==
    /\ l_pc = "login_start"
    /\ IF ~readOk
       THEN LoginFails("io")
       ELSE IF ~validUsername
       THEN LoginFails("invalid username")
       ELSE /\ l_pc' = IF l_cfg.online_mode
                       THEN "encryption_request" ELSE "set_compression"
            /\ UNCHANGED l_result
    /\ UNCHANGED <<l_cfg, l_log, l_crypt, l_compress, l_conn, l_msg, l_permit>>
    /\ UNCHANGED loginRest

\* Lines 572-580: the EncryptionRequest is written.
WriteEncryptionRequest(writeOk) ==
    /\ l_pc = "encryption_request"
    /\ IF writeOk
       THEN /\ l_log' = Append(l_log, WrittenEncryptionRequest)
            /\ l_pc' = "encryption_response"
            /\ UNCHANGED l_result
       ELSE /\ LoginFails("io")
            /\ UNCHANGED l_log
    /\ UNCHANGED <<l_cfg, l_crypt, l_compress, l_conn, l_msg, l_permit>>
    /\ UNCHANGED loginRest

\* CheckEncryptionResponse without the ensure! of lines 601-604.
CheckEncryptionResponseUnverified(secretOk, tokenOk, lengthOk) ==
    IF ~secretOk THEN "failed to decrypt shared secret"
    ELSE IF l_cfg.token # "sig" /\ ~tokenOk THEN "failed to decrypt verify token"
    ELSE IF ~lengthOk THEN "shared secret has the wrong length"
    ELSE "ok"

\* The value of lines 587-613 on a response that was read: the error of the
\* first step that fails, or "ok".
CheckEncryptionResponse(secretOk, tokenOk, lengthOk) ==
    IF ~secretOk THEN "failed to decrypt shared secret"
    ELSE IF l_cfg.token # "sig" /\ ~tokenOk THEN "failed to decrypt verify token"
    ELSE IF l_cfg.token = "mismatch" THEN "verify tokens do not match"
    ELSE IF ~lengthOk THEN "shared secret has the wrong length"
    ELSE "ok"

\* Lines 582-616: the EncryptionResponse is read, the shared secret and the
\* verify token decrypted and checked, and encryption enabled on the encoder
\* and then on the decoder.
HandleEncryptionResponse(readOk, secretOk, tokenOk, lengthOk) ==
    /\ l_pc = "encryption_response"
    /\ IF ~readOk
       THEN /\ LoginFails("io")
            /\ UNCHANGED <<l_log, l_crypt>>
       ELSE IF CheckEncryptionResponse(secretOk, tokenOk, lengthOk) # "ok"
       THEN /\ LoginFails(CheckEncryptionResponse(secretOk, tokenOk, lengthOk))
            /\ l_log' = Append(l_log, ReadEncryptionResponse)
            /\ UNCHANGED l_crypt
       ELSE /\ l_log' = l_log \o <<ReadEncryptionResponse,
                                   EncryptionEnabled("enc"),
                                   EncryptionEnabled("dec")>>
            /\ l_crypt' = Halves
            /\ l_pc' = "session_request"
            /\ UNCHANGED l_result
    /\ UNCHANGED <<l_cfg, l_compress, l_conn, l_msg, l_permit>>
    /\ UNCHANGED loginRest

\* What lines 633-653 can come to.
SessionOutcomes ==
    {"ok", "io", "session server GET request failed", "json",
     "usernames do not match", "failed to parse player's UUID",
     "missing signature for textures", "failed to find textures in auth response"}

\* Lines 624-655: the GET request to the session server is issued and its
\* response checked.
SessionRequest(outcome) ==
    /\ l_pc = "session_request"
    /\ l_log' = Append(l_log, SessionRequested)
    /\ IF outcome = "ok"
       THEN /\ l_pc' = "set_compression"
            /\ UNCHANGED l_result
       ELSE LoginFails(outcome)
    /\ UNCHANGED <<l_cfg, l_crypt, l_compress, l_conn, l_msg, l_permit>>
    /\ UNCHANGED loginRest

\* WriteSetCompression with compression enabled before the packet is written.
WriteSetCompressionCompressed(writeOk) ==
    /\ l_pc = "set_compression"
    /\ IF writeOk
       THEN /\ l_log' = l_log \o <<CompressionEnabled("enc"),
                                   CompressionEnabled("dec"),
                                   WrittenSetCompression>>
            /\ l_compress' = Halves
            /\ l_pc' = "login"
            /\ UNCHANGED l_result
       ELSE /\ LoginFails("io")
            /\ l_log' = l_log \o <<CompressionEnabled("enc"),
                                   CompressionEnabled("dec")>>
            /\ l_compress' = Halves
    /\ UNCHANGED <<l_cfg, l_crypt, l_conn, l_msg, l_permit>>
    /\ UNCHANGED loginRest

\* Lines 663-678: SetCompression is written, then compression enabled on the
\* encoder and on the decoder.
WriteSetCompression(writeOk) ==
    /\ l_pc = "set_compression"
    /\ IF writeOk
       THEN /\ l_log' = l_log \o <<WrittenSetCompression,
                                   CompressionEnabled("enc"),
                                   CompressionEnabled("dec")>>
            /\ l_compress' = Halves
            /\ l_pc' = "login"
            /\ UNCHANGED l_result
       ELSE /\ LoginFails("io")
            /\ UNCHANGED <<l_log, l_compress>>
    /\ UNCHANGED <<l_cfg, l_crypt, l_conn, l_msg, l_permit>>
    /\ UNCHANGED loginRest

\* Line 680: server.0.cfg.login(server, &npd).await.
CallLogin ==
    /\ l_pc = "login"
    /\ l_log' = Append(l_log, LoginCalled)
    /\ l_pc' = IF l_cfg.login = "Err" THEN "disconnect" ELSE "login_success"
    /\ UNCHANGED <<l_cfg, l_crypt, l_compress, l_result, l_conn, l_msg, l_permit>>
    /\ UNCHANGED loginRest

\* WriteDisconnect as it would be if LoginSuccess followed the Disconnect.
WriteDisconnectAndGoOn(writeOk) ==
    /\ l_pc = "disconnect"
    /\ IF writeOk
       THEN /\ l_log' = Append(l_log, Written("Disconnect"))
            /\ l_pc' = "login_success"
            /\ UNCHANGED l_result
       ELSE /\ LoginFails("io")
            /\ UNCHANGED l_log
    /\ UNCHANGED <<l_cfg, l_crypt, l_compress, l_conn, l_msg, l_permit>>
    /\ UNCHANGED loginRest

\* Lines 681-685: the Disconnect is written with .await?, and Ok(None)
\* returned after it.
WriteDisconnect(writeOk) ==
    /\ l_pc = "disconnect"
    /\ IF writeOk
       THEN /\ l_log' = Append(l_log, Written("Disconnect"))
            /\ l_result' = "OkNone"
            /\ l_pc' = "login_returned"
       ELSE /\ LoginFails("io")
            /\ UNCHANGED l_log
    /\ UNCHANGED <<l_cfg, l_crypt, l_compress, l_conn, l_msg, l_permit>>
    /\ UNCHANGED loginRest

\* Lines 688-696: LoginSuccess is written and Ok(Some(npd)) returned.
WriteLoginSuccess(writeOk) ==
    /\ l_pc = "login_success"
    /\ IF writeOk
       THEN /\ l_log' = Append(l_log, Written("LoginSuccess"))
            /\ l_result' = "OkSome"
            /\ l_pc' = "login_returned"
       ELSE /\ LoginFails("io")
            /\ UNCHANGED l_log
    /\ UNCHANGED <<l_cfg, l_crypt, l_compress, l_conn, l_msg, l_permit>>
    /\ UNCHANGED loginRest

\* Lines 495-503: the match on what handle_login returned. An error leaves
\* handle_connection with the ?; None makes it return Ok(()); Some(npd)
\* calls handle_play.
MatchLogin ==
    /\ l_pc = "login_returned"
    /\ IF l_result = "OkSome"
       THEN /\ l_pc' = "handle_play"
            /\ UNCHANGED l_conn
       ELSE /\ l_pc' = "drop_permit"
            /\ l_conn' = IF l_result = "OkNone" THEN "Ok" ELSE "Err"
    /\ UNCHANGED <<l_cfg, l_log, l_crypt, l_compress, l_result, l_msg, l_permit>>
    /\ UNCHANGED loginRest

\* Lines 700-709: handle_play sends the NewClientMessage into new_clients.
LoginSendNewClient ==
    /\ l_pc = "handle_play"
    /\ l_msg' = "queued"
    /\ l_pc' = "await_reply"
    /\ UNCHANGED <<l_cfg, l_log, l_crypt, l_compress, l_result, l_conn, l_permit>>
    /\ UNCHANGED loginRest

\* Lines 371-372 and 418-429: the tick loop receives the message and
\* join_player inserts the Client.
LoginJoinPlayer ==
    /\ l_msg = "queued"
    /\ l_msg' = "client"
    /\ UNCHANGED <<l_cfg, l_pc, l_log, l_crypt, l_compress, l_result, l_conn,
                   l_permit>>
    /\ UNCHANGED loginRest

\* Lines 711-735: handle_play returns, Ok(()) when the reply is dropped or an
\* error from the session.
PlayEnds(res) ==
    /\ l_pc = "await_reply"
    /\ l_conn' = res
    /\ l_pc' = "drop_permit"
    /\ UNCHANGED <<l_cfg, l_log, l_crypt, l_compress, l_result, l_msg, l_permit>>
    /\ UNCHANGED loginRest

\* Lines 460-463: handle_connection has returned and the task drops its
\* permit.
DropLoginPermit ==
    /\ l_pc = "drop_permit"
    /\ l_permit' = FALSE
    /\ l_pc' = "done"
    /\ UNCHANGED <<l_cfg, l_log, l_crypt, l_compress, l_result, l_conn, l_msg>>
    /\ UNCHANGED loginRest

LoginNext ==
    \/ \E readOk, validUsername \in BOOLEAN : ReadLoginStart(readOk, validUsername)
    \/ \E writeOk \in BOOLEAN : WriteEncryptionRequest(writeOk)
    \/ \E readOk, secretOk, tokenOk, lengthOk \in BOOLEAN :
          HandleEncryptionResponse(readOk, secretOk, tokenOk, lengthOk)
    \/ \E outcome \in SessionOutcomes : SessionRequest(outcome)
    \/ \E writeOk \in BOOLEAN : WriteSetCompression(writeOk)
    \/ CallLogin
    \/ \E writeOk \in BOOLEAN : WriteDisconnect(writeOk)
    \/ \E writeOk \in BOOLEAN : WriteLoginSuccess(writeOk)
    \/ MatchLogin
    \/ LoginSendNewClient
    \/ LoginJoinPlayer
    \/ \E res \in {"Ok", "Err"} : PlayEnds(res)
    \/ DropLoginPermit

\* A connection whose Handshake asked for Login, under any of the
\* configurations.
LoginInit ==
    /\ ServerAtRest
    /\ SessionInit
    /\ HandoffIdle
    /\ StatusIdle
    /\ ConfigIdle
    /\ HexIdle
    /\ l_cfg \in LoginCfgs
    /\ l_pc = "login_start"
    /\ l_log = <<>>
    /\ l_crypt = {}
    /\ l_compress = {}
    /\ l_result = None
    /\ l_conn = None
    /\ l_msg = "none"
    /\ l_permit = TRUE

LoginSpec == LoginInit /\ [][LoginNext]_allVars

\* The events of a successful login, in their order.
LoginOrder(online_mode) ==
    (IF online_mode
     THEN <<WrittenEncryptionRequest,
            ReadEncryptionResponse,
            EncryptionEnabled("enc"),
            EncryptionEnabled("dec"),
            SessionRequested>>
     ELSE <<>>)
    \o <<WrittenSetCompression,
         CompressionEnabled("enc"),
         CompressionEnabled("dec"),
         LoginCalled,
         Written("LoginSuccess")>>

\* The event e is in l_log.
Logged(e) == \E i \in 1..Len(l_log) : l_log[i] = e

\* C18: at every moment of a login the events so far are a prefix of
\* EncryptionRequest with an empty server_id, EncryptionResponse read,
\* encryption enabled on both halves, session request (these in online mode
\* only), SetCompression{256}, compression enabled on both halves, login
\* callback, then LoginSuccess or Disconnect; a successful login has gone
\* through all of them; in offline mode encryption is never enabled.
C18_LoginOrder ==
    /\ \/ IsPrefix(l_log, LoginOrder(l_cfg.online_mode))
       \/ /\ l_log # <<>>
          /\ l_log[Len(l_log)] = Written("Disconnect")
          /\ Len(l_log) = Len(LoginOrder(l_cfg.online_mode))
          /\ IsPrefix(SubSeq(l_log, 1, Len(l_log) - 1), LoginOrder(l_cfg.online_mode))
    /\ l_result = "OkSome" =>
          /\ l_log = LoginOrder(l_cfg.online_mode)
          /\ l_crypt = (IF l_cfg.online_mode THEN Halves ELSE {})
          /\ l_compress = Halves
    /\ ~l_cfg.online_mode =>
          /\ l_crypt = {}
          /\ ~Logged(WrittenEncryptionRequest)
          /\ ~Logged(SessionRequested)
          /\ \A h \in Halves : ~Logged(EncryptionEnabled(h))

\* An online-mode login has succeeded.
C18_Witness ==
    /\ l_cfg.online_mode
    /\ l_result = "OkSome"
    /\ l_crypt = Halves

\* C19: in online mode with a verify token that decrypts to another value
\* than the one sent, handle_login never gets past the EncryptionResponse
\* and returns an error, which handle_connection returns in turn: encryption
\* is not enabled, no session request issued, neither SetCompression nor
\* LoginSuccess written, the login callback not called, and no
\* NewClientMessage sent.
C19_VerifyTokenMismatchFails ==
    (l_cfg.online_mode /\ l_cfg.token = "mismatch") =>
        /\ l_pc \in {"login_start", "encryption_request", "encryption_response",
                     "login_returned", "drop_permit", "done"}
        /\ l_result \notin {"OkSome", "OkNone"}
        /\ l_pc \in {"login_returned", "drop_permit", "done"} => l_result # None
        /\ l_pc \in {"drop_permit", "done"} => l_conn = "Err"
        /\ l_crypt = {}
        /\ l_compress = {}
        /\ ~Logged(SessionRequested)
        /\ ~Logged(WrittenSetCompression)
        /\ ~Logged(Written("LoginSuccess"))
        /\ ~Logged(LoginCalled)
        /\ l_msg = "none"

\* The ensure! on the verify tokens has failed and the task has ended.
C19_Witness ==
    /\ l_cfg.online_mode
    /\ l_cfg.token = "mismatch"
    /\ l_result = "verify tokens do not match"
    /\ l_conn = "Err"
    /\ l_pc = "done"
    /\ ~l_permit

\* The login callback was called and returned a disconnect reason.
LoginRejected == l_cfg.login = "Err" /\ Logged(LoginCalled)

\* The number of Disconnect packets written.
DisconnectsWritten ==
    Cardinality({i \in 1..Len(l_log) : l_log[i] = Written("Disconnect")})

\* C20 as stated: after the login callback returned a disconnect reason,
\* handle_login returns None having written exactly one Disconnect and no
\* LoginSuccess, handle_connection returns Ok without handle_play, no
\* NewClientMessage is sent, no Client inserted, and the permit is released.
C20_RejectedLoginReturnsNone ==
    LoginRejected =>
        /\ l_pc \in {"disconnect", "login_returned", "drop_permit", "done"}
        /\ l_pc # "disconnect" =>
              /\ l_result = "OkNone"
              /\ DisconnectsWritten = 1
        /\ l_pc \in {"drop_permit", "done"} => l_conn = "Ok"
        /\ ~Logged(Written("LoginSuccess"))
        /\ l_msg = "none"
        /\ l_pc = "done" => ~l_permit

\* C20, amended: after the login callback returned a disconnect reason, the
\* Disconnect is written at most once and nothing after it; when its write
\* succeeds handle_login returns None and handle_connection Ok, and when it
\* fails handle_login returns the write error and handle_connection Err. In
\* both cases LoginSuccess is not written, handle_play not called, no
\* NewClientMessage sent, no Client inserted, and the permit released when
\* the task ends.
C20_RejectedLoginDisconnects ==
    LoginRejected =>
        /\ l_pc \in {"disconnect", "login_returned", "drop_permit", "done"}
        /\ l_pc = "disconnect" => (l_result = None /\ DisconnectsWritten = 0)
        /\ l_pc # "disconnect" =>
              \/ /\ l_result = "OkNone"
                 /\ DisconnectsWritten = 1
                 /\ l_log[Len(l_log)] = Written("Disconnect")
              \/ /\ l_result = "io"
                 /\ DisconnectsWritten = 0
        /\ l_pc \in {"drop_permit", "done"} =>
              l_conn = (IF l_result = "OkNone" THEN "Ok" ELSE "Err")
        /\ ~Logged(Written("LoginSuccess"))
        /\ l_msg = "none"
        /\ l_pc = "done" => ~l_permit

\* A rejected login has ended: one Disconnect written, None and Ok returned,
\* the permit released.
C20_Witness ==
    /\ LoginRejected
    /\ l_pc = "done"
    /\ l_result = "OkNone"
    /\ l_conn = "Ok"
    /\ DisconnectsWritten = 1
    /\ ~l_permit

\* --------------------------------------------------------- handle_status

\* The payloads of a PingRequest run from -MaxPayload to MaxPayload.
MaxPayload == 8

Payloads == (0 - MaxPayload)..MaxPayload

\* What server_list_ping can answer (lines 515-520, 548).
ServerListPings ==
    {[answer |-> "Ignore", favicon |-> FALSE]}
    \cup [answer : {"Respond"}, favicon : BOOLEAN]

\* The events of t_log.
StatusRequestRead == [ev |-> "read", packet |-> "StatusRequest"]
StatusResponseWritten(favicon) ==
    [ev |-> "write", packet |-> "StatusResponse", favicon |-> favicon]
PingRequestRead(payload) ==
    [ev |-> "read", packet |-> "PingRequest", payload |-> payload]
PongResponseWritten(payload) ==
    [ev |-> "write", packet |-> "PongResponse", payload |-> payload]

\* handle_status returns with res.
StatusReturns(res) ==
    /\ t_result' = res
    /\ t_pc' = "returned"

\* Line 512: the StatusRequest is read.
ReadStatusRequest(readOk) ==
    /\ t_pc = "status_request"
    /\ IF readOk
       THEN /\ t_log' = Append(t_log, StatusRequestRead)
            /\ t_pc' = "server_list_ping"
            /\ UNCHANGED t_result
       ELSE /\ StatusReturns("io")
            /\ UNCHANGED t_log
    /\ UNCHANGED t_ping
    /\ UNCHANGED statusRest

\* Lines 514 and 548: server_list_ping is called; on Ignore handle_status
\* returns Ok(()).
CallServerListPing ==
    /\ t_pc = "server_list_ping"
    /\ IF t_ping.answer = "Ignore"
       THEN StatusReturns("Ok")
       ELSE /\ t_pc' = "status_response"
            /\ UNCHANGED t_result
    /\ UNCHANGED <<t_ping, t_log>>
    /\ UNCHANGED statusRest

\* Lines 521-546: the JSON is built, with the favicon if there is one, and
\* the StatusResponse written.
WriteStatusResponse(writeOk) ==
    /\ t_pc = "status_response"
    /\ IF writeOk
       THEN /\ t_log' = Append(t_log, StatusResponseWritten(t_ping.favicon))
            /\ t_pc' = "ping_request"
            /\ UNCHANGED t_result
       ELSE /\ StatusReturns("io")
            /\ UNCHANGED t_log
    /\ UNCHANGED t_ping
    /\ UNCHANGED statusRest

\* Line 551: the PingRequest is read.
ReadPingRequest(readOk, payload) ==
    /\ t_pc = "ping_request"
    /\ IF readOk
       THEN /\ t_log' = Append(t_log, PingRequestRead(payload))
            /\ t_pc' = "pong_response"
            /\ UNCHANGED t_result
       ELSE /\ StatusReturns("io")
            /\ UNCHANGED t_log
    /\ UNCHANGED t_ping
    /\ UNCHANGED statusRest

\* WritePongResponse with a payload of its own instead of the request's.
WritePongResponseZero(writeOk) ==
    /\ t_pc = "pong_response"
    /\ IF writeOk
       THEN /\ t_log' = Append(t_log, PongResponseWritten(0))
            /\ StatusReturns("Ok")
       ELSE /\ StatusReturns("io")
            /\ UNCHANGED t_log
    /\ UNCHANGED t_ping
    /\ UNCHANGED statusRest

\* Lines 553-555: the PongResponse is written with the payload of the
\* PingRequest just read, and Ok(()) returned.
WritePongResponse(writeOk) ==
    /\ t_pc = "pong_response"
    /\ IF writeOk
       THEN /\ t_log' = Append(t_log, PongResponseWritten(t_log[Len(t_log)].payload))
            /\ StatusReturns("Ok")
       ELSE /\ StatusReturns("io")
            /\ UNCHANGED t_log
    /\ UNCHANGED t_ping
    /\ UNCHANGED statusRest

\* Lines 492-494 and 460-463: handle_connection returns what handle_status
\* returned and the task ends, dropping both halves of the stream.
StatusEnds ==
    /\ t_pc = "returned"
    /\ t_pc' = "done"
    /\ UNCHANGED <<t_ping, t_log, t_result>>
    /\ UNCHANGED statusRest

StatusNext ==
    \/ \E readOk \in BOOLEAN : ReadStatusRequest(readOk)
    \/ CallServerListPing
    \/ \E writeOk \in BOOLEAN : WriteStatusResponse(writeOk)
    \/ \E readOk \in BOOLEAN, payload \in Payloads : ReadPingRequest(readOk, payload)
    \/ \E writeOk \in BOOLEAN : WritePongResponse(writeOk)
    \/ StatusEnds

\* A connection whose Handshake asked for Status, under any answer of
\* server_list_ping.
StatusInit ==
    /\ ServerAtRest
    /\ SessionInit
    /\ HandoffIdle
    /\ ConfigIdle
    /\ HexIdle
    /\ LoginIdle
    /\ t_ping \in ServerListPings
    /\ t_pc = "status_request"
    /\ t_log = <<>>
    /\ t_result = None

StatusSpec == StatusInit /\ [][StatusNext]_allVars

\* The events of a whole Respond exchange with the given payload.
StatusOrder(payload) ==
    <<StatusRequestRead,
      StatusResponseWritten(t_ping.favicon),
      PingRequestRead(payload),
      PongResponseWritten(payload)>>

\* The number of packets of the given name written so far.
StatusWrites(name) ==
    Cardinality({i \in 1..Len(t_log) :
                    t_log[i].ev = "write" /\ t_log[i].packet = name})

\* C21: on Ignore nothing is written, no PingRequest read, and the handler
\* returns Ok once the StatusRequest was read; on Respond the events are
\* always a prefix of StatusRequest read, StatusResponse written, PingRequest
\* read, PongResponse written with the request's payload, all four of them
\* when the handler returns Ok; an error is returned only from a failed read
\* or write, and once the handler has returned nothing more is read or
\* written.
C21_StatusExchange ==
    /\ [](t_ping.answer = "Ignore" =>
            /\ IsPrefix(t_log, <<StatusRequestRead>>)
            /\ (t_result # None /\ t_log # <<>>) => t_result = "Ok"
            /\ t_result = "Ok" => t_log = <<StatusRequestRead>>)
    /\ [](t_ping.answer = "Respond" =>
            /\ \E payload \in Payloads : IsPrefix(t_log, StatusOrder(payload))
            /\ StatusWrites("StatusResponse") <= 1
            /\ StatusWrites("PongResponse") <= 1
            /\ t_result = "Ok" =>
                  /\ Len(t_log) = 4
                  /\ StatusWrites("StatusResponse") = 1
                  /\ StatusWrites("PongResponse") = 1
                  /\ t_log[4].payload = t_log[3].payload
            /\ t_result = "io" => Len(t_log) < 4)
    /\ [][t_result # None => (t_log' = t_log /\ t_result' = t_result)]_allVars

\* A Respond exchange has ended with the payload -1 echoed.
C21_Witness ==
    /\ t_ping.answer = "Respond"
    /\ t_result = "Ok"
    /\ t_pc = "done"
    /\ t_log = StatusOrder(-1)

\* ------------------------------------------- the handoff and join_player

\* The clients by their place in server.clients.
ClientKeys == 1..Len(h_clients)

\* S2cPacketChannels as it would be if every task were replied the halves of
\* the first two channels.
S2cPacketChannelsOfFirst(n) == [tx |-> 2, rx |-> 1]

\* Lines 419-423, with n channels created before: the clientbound channel is
\* number n + 1 and the serverbound one n + 2; the task is replied
\* (serverbound_tx, clientbound_rx) and the Client is built on
\* (clientbound_tx, serverbound_rx).
S2cPacketChannels(n) == [tx |-> n + 2, rx |-> n + 1]
C2sPacketChannels(n) == [tx |-> n + 1, rx |-> n + 2]

\* Lines 419-420: the two channels of a session, empty.
NewChannels ==
    <<[dir |-> "clientbound", cap |-> outgoing_packet_capacity, q |-> <<>>],
      [dir |-> "serverbound", cap |-> incoming_packet_capacity, q |-> <<>>]>>

\* The origins of the packets in a queue.
RECURSIVE Origins(_)
Origins(q) == IF q = <<>> THEN {} ELSE {Head(q)} \cup Origins(Tail(q))

\* Lines 491-504: the Handshake is read; a read error ends the task.
HandoffHandshake(c, next) ==
    /\ h_pc[c] = "handshake"
    /\ IF next = "error"
       THEN /\ h_pc' = [h_pc EXCEPT ![c] = "done"]
            /\ UNCHANGED h_next
       ELSE /\ h_pc' = [h_pc EXCEPT ![c] = IF next = "Status" THEN "status" ELSE "login"]
            /\ h_next' = [h_next EXCEPT ![c] = next]
    /\ UNCHANGED <<h_login, h_sent, h_new, h_chan, h_reply, h_clients, h_tick,
                   h_ticks, h_done, h_got, h_wrote, h_up, h_down>>
    /\ UNCHANGED handoffRest

\* Lines 492-494: handle_status returns and with it handle_connection.
HandoffStatus(c) ==
    /\ h_pc[c] = "status"
    /\ h_pc' = [h_pc EXCEPT ![c] = "done"]
    /\ UNCHANGED <<h_next, h_login, h_sent, h_new, h_chan, h_reply, h_clients,
                   h_tick, h_ticks, h_done, h_got, h_wrote, h_up, h_down>>
    /\ UNCHANGED handoffRest

\* Lines 495-503: handle_login returns Err, Ok(None) or Ok(Some(npd)); only
\* the last enters handle_play.
HandoffLogin(c, outcome) ==
    /\ h_pc[c] = "login"
    /\ h_login' = [h_login EXCEPT ![c] = outcome]
    /\ h_pc' = [h_pc EXCEPT ![c] = IF outcome = "Some" THEN "send_new" ELSE "done"]
    /\ UNCHANGED <<h_next, h_sent, h_new, h_chan, h_reply, h_clients, h_tick,
                   h_ticks, h_done, h_got, h_wrote, h_up, h_down>>
    /\ UNCHANGED handoffRest

\* Lines 700-709: the NewClientMessage is sent; send_async waits while
\* new_clients is full.
HandoffSendNewClient(c) ==
    /\ h_pc[c] = "send_new"
    /\ Len(h_new) < NewClientsCapacity
    /\ h_new' = Append(h_new, c)
    /\ h_sent' = [h_sent EXCEPT ![c] = @ + 1]
    /\ h_pc' = [h_pc EXCEPT ![c] = "await_reply"]
    /\ UNCHANGED <<h_next, h_login, h_chan, h_reply, h_clients, h_tick,
                   h_ticks, h_done, h_got, h_wrote, h_up, h_down>>
    /\ UNCHANGED handoffRest

\* Lines 259 and 333: with a tokio handle given by the user the tasks run on
\* the user's runtime, and its shutdown drops a task at the await of line
\* 711, and reply_rx with it.
HandoffCancel(c) ==
    /\ h_pc[c] = "await_reply"
    /\ h_reply[c] = NoHalves
    /\ h_pc' = [h_pc EXCEPT ![c] = "cancelled"]
    /\ UNCHANGED <<h_next, h_login, h_sent, h_new, h_chan, h_reply, h_clients,
                   h_tick, h_ticks, h_done, h_got, h_wrote, h_up, h_down>>
    /\ UNCHANGED handoffRest

\* Lines 711-725: the task receives its halves and spawns the writer.
HandoffReply(c) ==
    /\ h_pc[c] = "await_reply"
    /\ h_reply[c] # NoHalves
    /\ h_pc' = [h_pc EXCEPT ![c] = "play"]
    /\ UNCHANGED <<h_next, h_login, h_sent, h_new, h_chan, h_reply, h_clients,
                   h_tick, h_ticks, h_done, h_got, h_wrote, h_up, h_down>>
    /\ UNCHANGED handoffRest

\* Lines 728-729: the reader reads a packet and pushes it into packet_tx;
\* send_async waits while the channel is full.
HandoffPush(c) ==
    /\ h_pc[c] = "play"
    /\ h_up[c] < MaxPackets
    /\ Len(h_chan[h_reply[c].tx].q) < h_chan[h_reply[c].tx].cap
    /\ h_chan' = [h_chan EXCEPT ![h_reply[c].tx].q = Append(@, c)]
    /\ h_up' = [h_up EXCEPT ![c] = @ + 1]
    /\ UNCHANGED <<h_pc, h_next, h_login, h_sent, h_new, h_reply, h_clients,
                   h_tick, h_ticks, h_done, h_got, h_wrote, h_down>>
    /\ UNCHANGED handoffRest

\* Line 719: the writer receives a packet from packet_rx.
HandoffWriterRecv(c) ==
    /\ h_pc[c] = "play"
    /\ h_chan[h_reply[c].rx].q # <<>>
    /\ h_wrote' = [h_wrote EXCEPT ![c] = @ \cup {Head(h_chan[h_reply[c].rx].q)}]
    /\ h_chan' = [h_chan EXCEPT ![h_reply[c].rx].q = Tail(@)]
    /\ UNCHANGED <<h_pc, h_next, h_login, h_sent, h_new, h_reply, h_clients,
                   h_tick, h_ticks, h_done, h_got, h_up, h_down>>
    /\ UNCHANGED handoffRest

\* HandoffJoinPlayer as it would be if the Client were inserted only when the
\* reply was delivered.
HandoffJoinPlayerIfReplied ==
    /\ h_tick = "drain"
    /\ h_new # <<>>
    /\ h_new' = Tail(h_new)
    /\ h_chan' = h_chan \o NewChannels
    /\ IF h_pc[Head(h_new)] = "await_reply"
       THEN /\ h_reply' = [h_reply EXCEPT
                              ![Head(h_new)] = S2cPacketChannels(Len(h_chan))]
            /\ h_clients' = Append(h_clients,
                                   [of |-> Head(h_new),
                                    halves |-> C2sPacketChannels(Len(h_chan)),
                                    tick |-> h_ticks])
       ELSE UNCHANGED <<h_reply, h_clients>>
    /\ UNCHANGED <<h_pc, h_next, h_login, h_sent, h_tick, h_ticks, h_done,
                   h_got, h_wrote, h_up, h_down>>
    /\ UNCHANGED handoffRest

\* Lines 371-373 and 418-430, one turn of the while loop: try_recv yields a
\* message; join_player creates the two channels, sends the task its halves
\* (which fails, unnoticed, when reply_rx is gone), builds the Client on the
\* opposite halves and inserts it.
HandoffJoinPlayer ==
    /\ h_tick = "drain"
    /\ h_new # <<>>
    /\ h_new' = Tail(h_new)
    /\ h_chan' = h_chan \o NewChannels
    /\ h_reply' = IF h_pc[Head(h_new)] = "await_reply"
                  THEN [h_reply EXCEPT
                           ![Head(h_new)] = S2cPacketChannels(Len(h_chan))]
                  ELSE h_reply
    /\ h_clients' = Append(h_clients,
                           [of |-> Head(h_new),
                            halves |-> C2sPacketChannels(Len(h_chan)),
                            tick |-> h_ticks])
    /\ UNCHANGED <<h_pc, h_next, h_login, h_sent, h_tick, h_ticks, h_done,
                   h_got, h_wrote, h_up, h_down>>
    /\ UNCHANGED handoffRest

\* Line 371: try_recv finds new_clients empty; the ingest pass begins.
HandoffDrainEnd ==
    /\ h_tick = "drain"
    /\ h_new = <<>>
    /\ h_tick' = "ingest"
    /\ UNCHANGED <<h_pc, h_next, h_login, h_sent, h_new, h_chan, h_reply,
                   h_clients, h_ticks, h_done, h_got, h_wrote, h_up, h_down>>
    /\ UNCHANGED handoffRest

\* Lines 376-378, one client of the pass: handle_serverbound_packets takes
\* what its receiver holds.
HandoffIngest(k) ==
    /\ h_tick = "ingest"
    /\ k \in ClientKeys \ h_done
    /\ h_got' = [h_got EXCEPT ![h_clients[k].of] =
                    @ \cup Origins(h_chan[h_clients[k].halves.rx].q)]
    /\ h_chan' = [h_chan EXCEPT ![h_clients[k].halves.rx].q = <<>>]
    /\ h_done' = h_done \cup {k}
    /\ UNCHANGED <<h_pc, h_next, h_login, h_sent, h_new, h_reply, h_clients,
                   h_tick, h_ticks, h_wrote, h_up, h_down>>
    /\ UNCHANGED handoffRest

\* Line 378: for_each returns when every client was handled.
HandoffIngestEnd ==
    /\ h_tick = "ingest"
    /\ h_done = ClientKeys
    /\ h_tick' = "clients"
    /\ h_done' = {}
    /\ UNCHANGED <<h_pc, h_next, h_login, h_sent, h_new, h_chan, h_reply,
                   h_clients, h_ticks, h_got, h_wrote, h_up, h_down>>
    /\ UNCHANGED handoffRest

\* Lines 395-397, one client of the pass: Client::update, which may send a
\* packet into its sender when there is room and the task took its halves.
HandoffClientUpdate(k, send) ==
    /\ h_tick = "clients"
    /\ k \in ClientKeys \ h_done
    /\ h_done' = h_done \cup {k}
    /\ IF /\ send
          /\ h_down[h_clients[k].of] < MaxPackets
          /\ h_reply[h_clients[k].of] # NoHalves
          /\ Len(h_chan[h_clients[k].halves.tx].q) < h_chan[h_clients[k].halves.tx].cap
       THEN /\ h_chan' = [h_chan EXCEPT
                             ![h_clients[k].halves.tx].q = Append(@, h_clients[k].of)]
            /\ h_down' = [h_down EXCEPT ![h_clients[k].of] = @ + 1]
       ELSE UNCHANGED <<h_chan, h_down>>
    /\ UNCHANGED <<h_pc, h_next, h_login, h_sent, h_new, h_reply, h_clients,
                   h_tick, h_ticks, h_got, h_wrote, h_up>>
    /\ UNCHANGED handoffRest

\* Lines 397-414: the rest of the iteration, and the next one's shutdown
\* check.
HandoffTickEnd ==
    /\ h_tick = "clients"
    /\ h_done = ClientKeys
    /\ h_ticks < MaxTicks
    /\ h_ticks' = h_ticks + 1
    /\ h_tick' = "drain"
    /\ h_done' = {}
    /\ UNCHANGED <<h_pc, h_next, h_login, h_sent, h_new, h_chan, h_reply,
                   h_clients, h_got, h_wrote, h_up, h_down>>
    /\ UNCHANGED handoffRest

HandoffNext ==
    \/ \E c \in Conns, next \in {"Status", "Login", "error"} : HandoffHandshake(c, next)
    \/ \E c \in Conns : HandoffStatus(c)
    \/ \E c \in Conns, outcome \in {"Some", "OkNone", "Err"} : HandoffLogin(c, outcome)
    \/ \E c \in Conns : HandoffSendNewClient(c)
    \/ \E c \in Conns : HandoffCancel(c)
    \/ \E c \in Conns : HandoffReply(c)
    \/ \E c \in Conns : HandoffPush(c)
    \/ \E c \in Conns : HandoffWriterRecv(c)
    \/ HandoffJoinPlayer
    \/ HandoffDrainEnd
    \/ \E k \in ClientKeys : HandoffIngest(k)
    \/ HandoffIngestEnd
    \/ \E k \in ClientKeys, send \in BOOLEAN : HandoffClientUpdate(k, send)
    \/ HandoffTickEnd

HandoffInit ==
    /\ ServerAtRest
    /\ SessionInit
    /\ ConfigIdle
    /\ HexIdle
    /\ LoginIdle
    /\ StatusIdle
    /\ HandoffIdle

HandoffSpec == HandoffInit /\ [][HandoffNext]_allVars

\* The channels a pair of halves names.
ChannelsOf(halves) == {halves.tx, halves.rx}

\* C22: the Client of a connection holds the sender of a clientbound channel
\* of capacity outgoing_packet_capacity and the receiver of a serverbound
\* channel of capacity incoming_packet_capacity; the task, once replied,
\* holds the opposite halves of the same two channels, which no other
\* session shares; a Client receives packets of its own connection only and
\* so does a writer; no channel ever holds more packets than its capacity.
C22_MatchedHalves ==
    /\ \A k \in ClientKeys :
          /\ h_chan[h_clients[k].halves.tx].dir = "clientbound"
          /\ h_chan[h_clients[k].halves.rx].dir = "serverbound"
          /\ h_reply[h_clients[k].of] # NoHalves =>
                /\ h_reply[h_clients[k].of].tx = h_clients[k].halves.rx
                /\ h_reply[h_clients[k].of].rx = h_clients[k].halves.tx
          /\ \A j \in ClientKeys \ {k} :
                ChannelsOf(h_clients[k].halves) \cap ChannelsOf(h_clients[j].halves) = {}
          /\ Origins(h_chan[h_clients[k].halves.tx].q) \subseteq {h_clients[k].of}
          /\ Origins(h_chan[h_clients[k].halves.rx].q) \subseteq {h_clients[k].of}
    /\ \A c \in Conns :
          /\ h_reply[c] # NoHalves =>
                /\ \E k \in ClientKeys : h_clients[k].of = c
                /\ \A d \in Conns \ {c} :
                      ChannelsOf(h_reply[c]) \cap ChannelsOf(h_reply[d]) = {}
          /\ h_got[c] \subseteq {c}
          /\ h_wrote[c] \subseteq {c}
    /\ \A i \in 1..Len(h_chan) :
          /\ Len(h_chan[i].q) <= h_chan[i].cap
          /\ h_chan[i].cap = (IF h_chan[i].dir = "serverbound"
                              THEN incoming_packet_capacity
                              ELSE outgoing_packet_capacity)
    /\ Len(h_chan) = 2 * Len(h_clients)

\* Two sessions have exchanged packets both ways and a serverbound channel
\* is full.
C22_Witness ==
    /\ Len(h_clients) = 2
    /\ \A c \in 1..2 : h_got[c] = {c} /\ h_wrote[c] = {c}
    /\ \E i \in 1..Len(h_chan) :
          /\ h_chan[i].dir = "serverbound"
          /\ Len(h_chan[i].q) = incoming_packet_capacity

\* The connection's Handshake selected Login and its handle_login returned
\* Some.
LoggedIn(c) == h_next[c] = "Login" /\ h_login[c] = "Some"

\* The connections that have sent a NewClientMessage.
Senders == {c \in Conns : h_sent[c] > 0}

\* C23: every Client is of a connection that selected Login, logged in and
\* sent one NewClientMessage, and no two Clients are of the same connection;
\* a connection that selected Status or whose login failed or was rejected
\* has sent none; the messages sent are those queued and those that became a
\* Client. A Client is inserted only by the drain phase taking the head of
\* new_clients, every message taken inserts one, replied or not, and the
\* drain gives way to the ingest phase only with new_clients empty.
C23_ClientsFromHandoff ==
    /\ [](/\ \A k \in ClientKeys :
                /\ LoggedIn(h_clients[k].of)
                /\ h_sent[h_clients[k].of] = 1
                /\ \A j \in ClientKeys \ {k} : h_clients[j].of # h_clients[k].of
          /\ \A c \in Conns :
                /\ h_sent[c] <= 1
                /\ ~LoggedIn(c) =>
                      /\ h_sent[c] = 0
                      /\ \A i \in 1..Len(h_new) : h_new[i] # c
                      /\ \A k \in ClientKeys : h_clients[k].of # c
          /\ Cardinality(Senders) = Len(h_new) + Len(h_clients))
    /\ [][h_clients' # h_clients =>
            /\ h_tick = "drain" /\ h_tick' = "drain"
            /\ h_new # <<>>
            /\ h_new' = Tail(h_new)
            /\ Len(h_clients') = Len(h_clients) + 1
            /\ SubSeq(h_clients', 1, Len(h_clients)) = h_clients
            /\ h_clients'[Len(h_clients')].of = Head(h_new)
            /\ h_clients'[Len(h_clients')].tick = h_ticks]_allVars
    /\ [][Len(h_new') < Len(h_new) => Len(h_clients') = Len(h_clients) + 1]_allVars
    /\ [][(h_tick = "drain" /\ h_tick' # "drain") =>
            (h_tick' = "ingest" /\ h_new = <<>>)]_allVars

\* One connection asked for Status and ended; the other logged in, its task
\* was dropped before the reply, and its Client was inserted all the same.
C23_Witness ==
    /\ Len(h_clients) = 1
    /\ h_pc[h_clients[1].of] = "cancelled"
    /\ h_reply[h_clients[1].of] = NoHalves
    /\ \E c \in Conns : h_next[c] = "Status" /\ h_pc[c] = "done"

====
